---- MODULE Spec2Model ----
(***************************************************************************)
(* A model of py2pyd: the declaration extractors (src/parser), the binding *)
(* emitter and manifest generator (src/transformer), and the build         *)
(* orchestration of one unit and of a batch (src/compiler, src/uv_compiler)*)
(* the toolchain probe and main (src/build_tools, src/main), the           *)
(* process-wide interpreter record (src/python_env) and UvEnv::create      *)
(* (src/uv_env).                                                           *)
(*                                                                         *)
(* Text is modelled as a sequence of lines; a line is the sequence of the  *)
(* literal fragments and interpolated values that format! concatenates.    *)
(***************************************************************************)
EXTENDS Integers, Sequences, FiniteSets, TLC

VARIABLES
    \* ---- parser / transformer ----
    ast,            \* the top-level statement sequence (ast::Suite)
    module_name,    \* transform_ast / generate_cargo_toml argument
    optimize_level, \* u8
    functions, classes, imports, from_imports, module_vars, \* extractor results
    rust_code,      \* result of transform_ast
    cargo_toml,     \* result of generate_cargo_toml
    tpc,            \* position of the extract/transform caller
    input_file,     \* transform_file's input_path: the pieces of its file name
    \* ---- one compilation unit (compile_file) ----
    cpath,          \* "legacy": compiler::compile_file, "uv": uv_compiler::compile_file
    keep,           \* the caller's keep flag (--keep-temp / keep_temp_files)
    cpc,            \* position inside compile_file
    scratch_exists, \* the scratch directory is on disk
    scratch_made,   \* the scratch directory has been created at some point
    guard,          \* a live TempDir value owns the scratch directory
    scratch_files,  \* the files written under the scratch directory
    build_status,   \* "none", "running", "ok", "failed"
    build_runs,     \* how often the build command was spawned
    copy_runs,      \* how often the copy step was entered
    dest,           \* the destination path: "absent", "old", "partial", "artifact"
    dest_before,    \* dest when compile_file was called
    dest_parent,    \* the destination's parent directory exists
    dest_parent_before,
    result,         \* "none", "Ok", "Err"
    failed_at,      \* the stage whose error was returned, or "none"
    malformed,      \* the input file is not valid Python
    stages,         \* the stages entered so far: [stage, status], in order
    proc_output,    \* what the build command wrote to stderr / stdout
    error,          \* the returned anyhow::Error: its messages, outermost first
    built,          \* where the build left files with the library extension
    copied_from,    \* the place of the file handed to fs::copy, or "none"
    \* ---- a batch (batch_compile) ----
    windows,        \* cfg!(windows)
    input_pattern,  \* [is_dir, path]: the input argument and what it names
    recursive,      \* the recursive flag
    output_dir,     \* the output directory argument
    python_files,   \* the result of collect_python_files
    idx,            \* the position of the for loop in python_files
    success_count, failure_count,
    attempts,       \* the compile_file calls made: [input, output, outcome]
    bpc,            \* "start", "loop", "done"
    bresult,        \* what batch_compile returned: "none", "Ok", "Err"
    \* ---- the toolchain probe and main ----
    platform,       \* "windows", "linux", "macos": cfg!(windows), cfg!(unix), cfg!(target_os)
    on_path,        \* the programs that which() finds
    use_uv,         \* --use-uv
    command,        \* "compile" or "batch"
    tools,          \* the BuildTools value, or Unset
    tools_info,     \* the result of get_tools_info, or Unset
    check_result,   \* what check_build_tools returned: "none", "Ok", "Err"
    main_error,     \* the error main returned: its messages, outermost first
    provision_runs, \* how often an environment was provisioned
    build_cmd_runs, \* how often a build command was started
    exit_code,      \* the exit code of the process, -1 while it runs
    mpc,            \* position inside main
    \* ---- the process-wide interpreter record (python_env) ----
    env,            \* PYTHON_ENV: python_path, uv_path, venv_path, initialized
    lock,           \* the holder of the Mutex around PYTHON_ENV, or "free"
    ppc,            \* per caller: its position inside the call it is making
    pcall,          \* per caller: the call it is making, its locals and result
    venv_dir,       \* the directory get_venv_dir() names: None or what it holds
    explicit_exists,\* the path given as python_path exists
    path_python,    \* what `which` finds for python / python3 / py
    uv_ok,          \* setup_uv finds or installs uv
    succeeded,      \* some initialize_python_env call has returned Ok
    keep_temp,      \* --keep-temp
    lpc,            \* position inside main's branch for the cargo compiler
    removed,        \* what cleanup_venv removed: None or the directory's content
    \* ---- UvEnv::create and the files of uv_compiler::compile_file ----
    uv_config,      \* UvEnvConfig: python_path, python_version, keep_venv
    home_venvs,     \* the directories under ~/.py2pyd/venvs
    home_before,    \* home_venvs when UvEnv::create was called
    made_dir,       \* the directory create_dir_all made for a kept environment
    temp_dir,       \* the TempDir of the environment, or None
    venv_path,      \* the path the environment is to be created at
    venv_cmd,       \* the arguments of the `uv venv` command that ran
    uv_env,         \* the UvEnv returned, or None
    eresult,        \* "none", "Ok", "Err"
    epc,            \* position inside UvEnv::create
    uv_input,       \* the input file of compile_file: its stem, its text, the keep flag
    levels,         \* the optimize_level of the first and of the second call
    runs,           \* per finished call: what it wrote and the command it ran
    spc             \* position inside uv_compiler::compile_file

tvars == <<ast, module_name, optimize_level, functions, classes, imports,
           from_imports, module_vars, rust_code, cargo_toml, tpc, input_file>>

uvars == <<cpath, keep, cpc, scratch_exists, scratch_made, guard, scratch_files,
           build_status, build_runs, copy_runs, dest, dest_before, dest_parent,
           dest_parent_before, result, failed_at, malformed, stages, proc_output,
           error, built, copied_from>>

bvars == <<windows, input_pattern, recursive, output_dir, python_files, idx,
           success_count, failure_count, attempts, bpc, bresult>>

mvars == <<platform, on_path, use_uv, command, tools, tools_info, check_result,
           main_error, provision_runs, build_cmd_runs, exit_code, mpc>>

pvars == <<env, lock, ppc, pcall, venv_dir, explicit_exists, path_python, uv_ok,
           succeeded, keep_temp, lpc, removed>>

evars == <<uv_config, home_venvs, home_before, made_dir, temp_dir, venv_path, venv_cmd,
           uv_env, eresult, epc, uv_input, levels, runs, spc>>

vars == <<tvars, uvars, bvars, mvars, pvars, evars>>

(***************************************************************************)
(* Bounds of the model.                                                    *)
(***************************************************************************)
MaxStmts == 3

\* The number of Python files in the input tree of a batch.
MaxFiles == 3

(* u8::MAX: optimize_level is a u8. *)
U8Max == 255

(***************************************************************************)
(* Statements. rustpython's Located<StmtKind>: a location, a kind tag, a   *)
(* name (FunctionDef / AsyncFunctionDef / ClassDef) and a body.            *)
(***************************************************************************)
StmtKinds == {"FunctionDef", "AsyncFunctionDef", "ClassDef", "Import",
              "ImportFrom", "Assign", "Expr"}

Names == {"foo", "bar"}

NoName == ""

\* A statement before locations are assigned: kind, name, has a nested body.
Shapes ==
    [kind : {"FunctionDef", "ClassDef"}, name : Names, nested : BOOLEAN]
    \cup [kind : {"AsyncFunctionDef"}, name : Names, nested : {FALSE}]
    \cup [kind : {"Import", "ImportFrom", "Assign", "Expr"}, name : {NoName},
          nested : {FALSE}]

\* The body of a statement with nested declarations: one def and one class.
NestedBody(row) ==
    << [location |-> row + 1, kind |-> "FunctionDef", name |-> "inner", body |-> <<>>],
       [location |-> row + 2, kind |-> "ClassDef", name |-> "Inner", body |-> <<>>] >>

\* parse_source: the statement sequence of a source text, each statement
\* located at its own row (three rows per top-level statement).
ParsedSuite(shapes) ==
    [i \in 1..Len(shapes) |->
        [location |-> 3 * i - 2,
         kind     |-> shapes[i].kind,
         name     |-> shapes[i].name,
         body     |-> IF shapes[i].nested THEN NestedBody(3 * i - 2) ELSE <<>>]]

RECURSIVE SeqsUpTo(_, _)
SeqsUpTo(S, n) ==
    IF n = 0 THEN {<<>>}
    ELSE LET shorter == SeqsUpTo(S, n - 1)
         IN  shorter \cup {Append(s, x) : s \in {t \in shorter : Len(t) = n - 1}, x \in S}

Suites == {ParsedSuite(sh) : sh \in SeqsUpTo(Shapes, MaxStmts)}

(***************************************************************************)
(* src/parser/mod.rs: the five extractors. Each walks the outermost        *)
(* sequence once and pushes a reference to every statement whose kind      *)
(* matches.                                                                *)
(***************************************************************************)
RECURSIVE ExtractKind(_, _, _)
ExtractKind(suite, kinds, i) ==
    IF i > Len(suite) THEN <<>>
    ELSE (IF suite[i].kind \in kinds THEN <<suite[i]>> ELSE <<>>)
         \o ExtractKind(suite, kinds, i + 1)

\* A faulty variant: async definitions are collected as functions too.
extract_functions_with_async(suite) ==
    ExtractKind(suite, {"FunctionDef", "AsyncFunctionDef"}, 1)

extract_functions(suite) == ExtractKind(suite, {"FunctionDef"}, 1)

extract_classes(suite) == ExtractKind(suite, {"ClassDef"}, 1)

extract_imports(suite) == ExtractKind(suite, {"Import"}, 1)

extract_from_imports(suite) == ExtractKind(suite, {"ImportFrom"}, 1)

extract_module_vars(suite) == ExtractKind(suite, {"Assign"}, 1)

(***************************************************************************)
(* src/transformer/mod.rs: transform_ast.                                  *)
(***************************************************************************)
RECURSIVE Flatten(_)
Flatten(ss) == IF ss = <<>> THEN <<>> ELSE Head(ss) \o Flatten(Tail(ss))

Prologue ==
    << <<"use pyo3::prelude::*;">>,
       <<"use pyo3::wrap_pyfunction;">>,
       <<>> >>

ModuleHeader(m) ==
    << <<"#[pymodule]">>,
       <<"fn ", m, "(_py: Python, m: &PyModule) -> PyResult<()> {">> >>

FnRegLine(name) == <<"    m.add_function(wrap_pyfunction!(", name, ", m)?)?;">>

ClassRegLine(name) == <<"    m.add_class::<", name, ">()?;">>

ModuleFooter ==
    << <<"    Ok(())">>,
       <<"}">>,
       <<>> >>

FnStubLines(name) ==
    << <<"#[pyfunction]">>,
       <<"fn ", name, "(py: Python) -> PyResult<PyObject> {">>,
       <<"    // Auto-generated function implementation">>,
       <<"    Ok(py.None())">>,
       <<"}">>,
       <<>> >>

\* A faulty variant: the body of `fn new` is left open.
ClassStubLinesUnclosed(name) ==
    << <<"#[pyclass]">>,
       <<"struct ", name, " {">>,
       <<"    // Auto-generated class implementation">>,
       <<"}">>,
       <<>>,
       <<"#[pymethods]">>,
       <<"impl ", name, " {">>,
       <<"    #[new]">>,
       <<"    fn new() -> Self {">>,
       <<"        ", name, "{ }">>,
       <<"}">>,
       <<>> >>

ClassStubLines(name) ==
    << <<"#[pyclass]">>,
       <<"struct ", name, " {">>,
       <<"    // Auto-generated class implementation">>,
       <<"}">>,
       <<>>,
       <<"#[pymethods]">>,
       <<"impl ", name, " {">>,
       <<"    #[new]">>,
       <<"    fn new() -> Self {">>,
       <<"        ", name, "{ }">>,
       <<"    }">>,
       <<"}">>,
       <<>> >>

\* for func in extract_functions(ast) { if let FunctionDef { name } ... push registration }
RegisterFunctions(suite) ==
    LET fs == extract_functions(suite)
    IN  Flatten([j \in 1..Len(fs) |->
                    IF fs[j].kind = "FunctionDef" THEN <<FnRegLine(fs[j].name)>> ELSE <<>>])

RegisterClasses(suite) ==
    LET cs == extract_classes(suite)
    IN  Flatten([j \in 1..Len(cs) |->
                    IF cs[j].kind = "ClassDef" THEN <<ClassRegLine(cs[j].name)>> ELSE <<>>])

\* A faulty variant: the last function gets no stub.
FunctionStubsDropLast(suite) ==
    LET fs == extract_functions(suite)
    IN  Flatten([j \in 1..(Len(fs) - 1) |-> FnStubLines(fs[j].name)])

FunctionStubs(suite) ==
    LET fs == extract_functions(suite)
    IN  Flatten([j \in 1..Len(fs) |->
                    IF fs[j].kind = "FunctionDef" THEN FnStubLines(fs[j].name) ELSE <<>>])

ClassStubs(suite) ==
    LET cs == extract_classes(suite)
    IN  Flatten([j \in 1..Len(cs) |->
                    IF cs[j].kind = "ClassDef" THEN ClassStubLines(cs[j].name) ELSE <<>>])

\* A faulty variant: registrations are emitted in one pass, in source order, so that
\* functions and classes interleave as they do in the Python source.
RECURSIVE RegisterInSourceOrder(_, _)
RegisterInSourceOrder(suite, i) ==
    IF i > Len(suite) THEN <<>>
    ELSE (CASE suite[i].kind = "FunctionDef" -> <<FnRegLine(suite[i].name)>>
            [] suite[i].kind = "ClassDef"    -> <<ClassRegLine(suite[i].name)>>
            [] OTHER                         -> <<>>)
         \o RegisterInSourceOrder(suite, i + 1)

transform_ast_interleaved(suite, m, level) ==
    Prologue \o ModuleHeader(m)
    \o RegisterInSourceOrder(suite, 1)
    \o ModuleFooter
    \o FunctionStubs(suite) \o ClassStubs(suite)

transform_ast(suite, m, level) ==
    Prologue \o ModuleHeader(m)
    \o RegisterFunctions(suite) \o RegisterClasses(suite)
    \o ModuleFooter
    \o FunctionStubs(suite) \o ClassStubs(suite)

(***************************************************************************)
(* src/transformer/mod.rs: generate_cargo_toml.                            *)
(***************************************************************************)
\* A faulty variant: only level 3 itself selects the full profile; higher levels get
\* the bare opt-level directive.
ProfileLinesOnlyThree(level) ==
    CASE level = 0 -> << <<"opt-level = 0">> >>
      [] level = 1 -> << <<"opt-level = 1">> >>
      [] level = 2 -> << <<"opt-level = 2">> >>
      [] level = 3 -> << <<"opt-level = 3">>, <<"lto = true">>, <<"codegen-units = 1">> >>
      [] OTHER     -> << <<"opt-level = 3">> >>

\* match optimize_level { 0 => .., 1 => .., 2 => .., _ => .. }
ProfileLines(level) ==
    CASE level = 0 -> << <<"opt-level = 0">> >>
      [] level = 1 -> << <<"opt-level = 1">> >>
      [] level = 2 -> << <<"opt-level = 2">> >>
      [] OTHER     -> << <<"opt-level = 3">>, <<"lto = true">>, <<"codegen-units = 1">> >>

generate_cargo_toml(m, level) ==
    << <<"[package]">>,
       <<"name = \"", m, "\"">>,
       <<"version = \"0.1.0\"">>,
       <<"edition = \"2021\"">>,
       <<>>,
       <<"[lib]">>,
       <<"name = \"", m, "\"">>,
       <<"crate-type = [\"cdylib\"]">>,
       <<>>,
       <<"[package.metadata.maturin]">>,
       <<"name = \"", m, "\"">>,
       <<"binding = \"pyo3\"">>,
       <<"strip = true">>,
       <<>>,
       <<"[dependencies]">>,
       <<"pyo3 = { version = \"0.19\", features = [\"extension-module\"] }">>,
       <<>>,
       <<"[profile.release]">> >>
    \o ProfileLines(level)

(***************************************************************************)
(* The extract / transform caller (tests/parser_test.rs,                   *)
(* tests/transformer_test.rs): parse, run the five extractors, emit.       *)
(***************************************************************************)
ModuleNames == {"mathmod", "my_module"}

Unset == <<>>

\* The state of the parts a caller does not use.
TransformerIdle ==
    /\ ast = <<>> /\ module_name = "" /\ optimize_level = 0
    /\ functions = Unset /\ classes = Unset /\ imports = Unset
    /\ from_imports = Unset /\ module_vars = Unset
    /\ rust_code = Unset /\ cargo_toml = Unset
    /\ tpc = "idle" /\ input_file = <<>>

UnitIdle ==
    /\ cpath = "none" /\ keep = FALSE /\ cpc = "idle"
    /\ scratch_exists = FALSE /\ scratch_made = FALSE /\ guard = FALSE
    /\ scratch_files = {}
    /\ build_status = "none" /\ build_runs = 0 /\ copy_runs = 0
    /\ dest = "absent" /\ dest_before = "absent"
    /\ dest_parent = FALSE /\ dest_parent_before = FALSE
    /\ result = "none" /\ failed_at = "none"
    /\ malformed = FALSE /\ stages = <<>> /\ proc_output = "none"
    /\ error = <<>> /\ built = {} /\ copied_from = "none"

NoPath == [abs |-> FALSE, comps |-> <<>>]

BatchIdle ==
    /\ windows = FALSE
    /\ input_pattern = [is_dir |-> FALSE, path |-> NoPath]
    /\ recursive = FALSE
    /\ output_dir = NoPath
    /\ python_files = <<>> /\ idx = 1
    /\ success_count = 0 /\ failure_count = 0
    /\ attempts = <<>>
    /\ bpc = "idle" /\ bresult = "none"

MainIdle ==
    /\ platform = "linux" /\ on_path = {} /\ use_uv = FALSE /\ command = "none"
    /\ tools = Unset /\ tools_info = Unset /\ check_result = "none"
    /\ main_error = <<>>
    /\ provision_runs = 0 /\ build_cmd_runs = 0
    /\ exit_code = -1 /\ mpc = "idle"

\* PythonEnvironment::new(): nothing resolved yet.
NewEnvironment ==
    [python_path |-> <<>>, uv_path |-> <<>>, venv_path |-> <<>>, initialized |-> FALSE]

PythonEnvIdle ==
    /\ env = NewEnvironment /\ lock = "free"
    /\ ppc = <<>> /\ pcall = <<>>
    /\ venv_dir = <<>> /\ explicit_exists = FALSE /\ path_python = "none"
    /\ uv_ok = FALSE /\ succeeded = FALSE
    /\ keep_temp = FALSE /\ lpc = "idle" /\ removed = <<>>

UvEnvIdle ==
    /\ uv_config = <<>> /\ home_venvs = {} /\ home_before = {}
    /\ made_dir = <<>> /\ temp_dir = <<>> /\ venv_path = <<>> /\ venv_cmd = <<>>
    /\ uv_env = <<>> /\ eresult = "none" /\ epc = "idle"
    /\ uv_input = <<>> /\ levels = <<>> /\ runs = <<>> /\ spc = "idle"

InitTransformer ==
    /\ UnitIdle /\ BatchIdle /\ MainIdle /\ PythonEnvIdle /\ UvEnvIdle
    /\ ast \in Suites
    /\ module_name = "mathmod"
    /\ optimize_level = 2
    /\ functions = Unset /\ classes = Unset /\ imports = Unset
    /\ from_imports = Unset /\ module_vars = Unset
    /\ rust_code = Unset /\ cargo_toml = Unset
    /\ tpc = "parsed" /\ input_file = <<>>

\* A faulty variant: the extractors take the matching statements out of the
\* suite (drain) instead of borrowing them.
ExtractConsuming ==
    /\ tpc = "parsed"
    /\ functions' = extract_functions(ast)
    /\ classes' = extract_classes(ast)
    /\ imports' = extract_imports(ast)
    /\ from_imports' = extract_from_imports(ast)
    /\ module_vars' = extract_module_vars(ast)
    /\ ast' = ExtractKind(ast, {"AsyncFunctionDef", "Expr"}, 1)
    /\ tpc' = "extracted"
    /\ UNCHANGED <<module_name, optimize_level, rust_code, cargo_toml, input_file>>
    /\ UNCHANGED <<uvars, bvars, mvars, pvars, evars>>

Extract ==
    /\ tpc = "parsed"
    /\ functions' = extract_functions(ast)
    /\ classes' = extract_classes(ast)
    /\ imports' = extract_imports(ast)
    /\ from_imports' = extract_from_imports(ast)
    /\ module_vars' = extract_module_vars(ast)
    /\ tpc' = "extracted"
    /\ UNCHANGED <<ast, module_name, optimize_level, rust_code, cargo_toml, input_file>>
    /\ UNCHANGED <<uvars, bvars, mvars, pvars, evars>>

TransformAst ==
    /\ tpc = "extracted"
    /\ rust_code' = transform_ast(ast, module_name, optimize_level)
    /\ tpc' = "transformed"
    /\ UNCHANGED <<ast, module_name, optimize_level, functions, classes, imports,
                   from_imports, module_vars, cargo_toml, input_file>>
    /\ UNCHANGED <<uvars, bvars, mvars, pvars, evars>>

NextTransformer == Extract \/ TransformAst

SpecTransformer == InitTransformer /\ [][NextTransformer]_vars

(***************************************************************************)
(* A caller that applies the five extractors twice to the same suite, as   *)
(* transform_ast does with extract_functions and extract_classes.          *)
(***************************************************************************)
ExtractAgain ==
    /\ tpc = "extracted"
    /\ functions' = extract_functions(ast)
    /\ classes' = extract_classes(ast)
    /\ imports' = extract_imports(ast)
    /\ from_imports' = extract_from_imports(ast)
    /\ module_vars' = extract_module_vars(ast)
    /\ tpc' = "extracted_twice"
    /\ UNCHANGED <<ast, module_name, optimize_level, rust_code, cargo_toml, input_file>>
    /\ UNCHANGED <<uvars, bvars, mvars, pvars, evars>>

NextExtractTwice == Extract \/ ExtractAgain

SpecExtractTwice == InitTransformer /\ [][NextExtractTwice]_vars

(***************************************************************************)
(* The manifest caller: every u8 level, each module name.                  *)
(***************************************************************************)
InitCargo ==
    /\ UnitIdle /\ BatchIdle /\ MainIdle /\ PythonEnvIdle /\ UvEnvIdle
    /\ ast = <<>>
    /\ module_name \in ModuleNames
    /\ optimize_level \in 0..U8Max
    /\ functions = Unset /\ classes = Unset /\ imports = Unset
    /\ from_imports = Unset /\ module_vars = Unset
    /\ rust_code = Unset /\ cargo_toml = Unset
    /\ tpc = "cargo" /\ input_file = <<>>

GenerateCargoToml ==
    /\ tpc = "cargo"
    /\ cargo_toml' = generate_cargo_toml(module_name, optimize_level)
    /\ tpc' = "cargo_done"
    /\ UNCHANGED <<ast, module_name, optimize_level, functions, classes, imports,
                   from_imports, module_vars, rust_code, input_file>>
    /\ UNCHANGED <<uvars, bvars, mvars, pvars, evars>>

NextCargo == GenerateCargoToml

SpecCargo == InitCargo /\ [][NextCargo]_vars

(***************************************************************************)
(* One compilation unit: compiler::compile_file (the cargo path) and       *)
(* uv_compiler::compile_file (the uv / setup.py path). Every fallible call *)
(* either succeeds or returns its error through `?`; the outcome of an     *)
(* external call (file system, process) is chosen by the environment.      *)
(***************************************************************************)
DestStates == {"absent", "old"}

InitUnit ==
    /\ TransformerIdle /\ BatchIdle /\ MainIdle /\ PythonEnvIdle /\ UvEnvIdle
    /\ cpath \in {"legacy", "uv"}
    /\ keep \in BOOLEAN
    /\ cpc = "start"
    /\ scratch_exists = FALSE /\ scratch_made = FALSE /\ guard = FALSE
    /\ scratch_files = {}
    /\ build_status = "none" /\ build_runs = 0 /\ copy_runs = 0
    /\ dest \in DestStates /\ dest_before = dest
    /\ dest_parent \in BOOLEAN /\ dest_parent_before = dest_parent
    /\ (dest = "old" => dest_parent)
    /\ result = "none" /\ failed_at = "none"
    /\ malformed \in BOOLEAN
    /\ stages = <<>> /\ proc_output = "none"
    /\ error = <<>> /\ built = {} /\ copied_from = "none"

\* A stage of the pipeline with the status it was left with.
Stage(name, status) == [stage |-> name, status |-> status]

\* The stage entered last is left with a status.
Finish(log, status) == [log EXCEPT ![Len(log)].status = status]

\* What the build command may have written to stderr / stdout.
ProcOutputs == {"", "error: could not compile"}

\* The exit status of a failed build command, as ExitStatus displays it.
ExitCodes == {"exit status: 1", "exit status: 101"}

\* Where a build can leave a file with the library extension: at the exact
\* path target/release/lib<build_dir name>.<ext>, elsewhere directly in the
\* directory that is looked at (target/release, or the scratch directory of
\* the uv path), or in a subdirectory of it.
Places == {"exact", "top", "nested"}

\* transform_file: parse_file, file_stem, transform_ast, generate_cargo_toml,
\* then tempfile::tempdir(); the TempDir is dropped when transform_file
\* returns, so build_dir names a directory that has been removed again.
\* compile_file wraps the error with its own context.
L_TransformFile ==
    /\ cpath = "legacy" /\ cpc = "start"
    /\ \E outcome \in IF malformed THEN {"read_error", "parse_error"}
                      ELSE {"ok", "read_error", "bad_stem", "tempdir_error"} :
          /\ IF outcome = "ok"
             THEN /\ scratch_made' = TRUE
                  /\ cpc' = "create_project"
                  /\ UNCHANGED <<result, failed_at, error>>
             ELSE /\ UNCHANGED scratch_made
                  /\ result' = "Err" /\ failed_at' = "transform" /\ cpc' = "returned"
                  /\ error' =
                        << <<"Failed to transform Python file: ", "input_path">> >>
                        \o CASE outcome = "read_error" ->
                                  << <<"Failed to parse Python file: ", "input_path">>,
                                     <<"Failed to read Python file: ", "input_path">>,
                                     <<"io::Error">> >>
                             [] outcome = "parse_error" ->
                                  << <<"Failed to parse Python file: ", "input_path">>,
                                     <<"Failed to parse Python file: ", "input_path">>,
                                     <<"Python parsing error: ", "ParseError">> >>
                             [] outcome = "bad_stem" -> << <<"Invalid file name">> >>
                             [] outcome = "tempdir_error" ->
                                  << <<"Failed to create temporary directory">>,
                                     <<"io::Error">> >>
          /\ stages' = stages \o
                CASE outcome \in {"read_error", "parse_error"} ->
                          <<Stage("parse", "failed")>>
                  [] outcome \in {"bad_stem", "tempdir_error"} ->
                          <<Stage("parse", "ok"), Stage("emit", "failed")>>
                  [] outcome = "ok" -> <<Stage("parse", "ok"), Stage("emit", "ok")>>
    /\ UNCHANGED <<cpath, keep, guard, build_status, build_runs, copy_runs, dest,
                   dest_before, dest_parent, dest_parent_before, scratch_exists,
                   scratch_files, malformed, proc_output, built, copied_from>>
    /\ UNCHANGED <<tvars, bvars, mvars, pvars, evars>>

\* create_rust_project: create_dir_all(build_dir/src), write Cargo.toml and
\* src/lib.rs.
L_CreateRustProject ==
    /\ cpath = "legacy" /\ cpc = "create_project"
    /\ \E outcome \in {"ok", "mkdir_error", "write_error"} :
          /\ CASE outcome = "ok" ->
                   /\ scratch_exists' = TRUE
                   /\ scratch_files' = {"Cargo.toml", "src/lib.rs"}
                   /\ cpc' = "build"
                   /\ UNCHANGED <<result, failed_at, error>>
               [] outcome = "mkdir_error" ->
                   /\ UNCHANGED <<scratch_exists, scratch_files>>
                   /\ result' = "Err" /\ failed_at' = "create_project" /\ cpc' = "returned"
                   /\ error' = << <<"Failed to create Rust project">>,
                                  <<"Failed to create src directory: ", "build_dir/src">>,
                                  <<"io::Error">> >>
               [] outcome = "write_error" ->
                   /\ scratch_exists' = TRUE
                   /\ \E written \in {{}, {"Cargo.toml"}} :
                         /\ scratch_files' = written
                         /\ error' = << <<"Failed to create Rust project">>,
                                        IF written = {} THEN <<"Failed to write Cargo.toml">>
                                        ELSE <<"Failed to write lib.rs">>,
                                        <<"io::Error">> >>
                   /\ result' = "Err" /\ failed_at' = "create_project" /\ cpc' = "returned"
          /\ stages' = Append(stages, Stage("write", IF outcome = "ok" THEN "ok" ELSE "failed"))
    /\ UNCHANGED <<cpath, keep, scratch_made, guard, build_status, build_runs, copy_runs,
                   dest, dest_before, dest_parent, dest_parent_before, malformed,
                   proc_output, built, copied_from>>
    /\ UNCHANGED <<tvars, bvars, mvars, pvars, evars>>

\* build_rust_project, up to the spawn: write pyproject.toml, start
\* `cargo build --release` in build_dir with the inherited stdout / stderr.
L_BuildStart ==
    /\ cpath = "legacy" /\ cpc = "build"
    /\ \E outcome \in {"spawned", "write_error", "spawn_error"} :
          /\ CASE outcome = "spawned" ->
                   /\ scratch_files' = scratch_files \cup {"pyproject.toml"}
                   /\ build_status' = "running"
                   /\ build_runs' = build_runs + 1
                   /\ cpc' = "building"
                   /\ UNCHANGED <<result, failed_at, error>>
               [] outcome = "write_error" ->
                   /\ UNCHANGED <<scratch_files, build_status, build_runs>>
                   /\ result' = "Err" /\ failed_at' = "build_setup" /\ cpc' = "returned"
                   /\ error' = << <<"Failed to build Rust project">>,
                                  <<"Failed to write pyproject.toml">>,
                                  <<"io::Error">> >>
               [] outcome = "spawn_error" ->
                   /\ scratch_files' = scratch_files \cup {"pyproject.toml"}
                   /\ UNCHANGED <<build_status, build_runs>>
                   /\ result' = "Err" /\ failed_at' = "build_setup" /\ cpc' = "returned"
                   /\ error' = << <<"Failed to build Rust project">>,
                                  <<"Failed to execute cargo build">>,
                                  <<"io::Error">> >>
          /\ stages' = Append(stages,
                          Stage("build", IF outcome = "spawned" THEN "running" ELSE "failed"))
    /\ UNCHANGED <<cpath, keep, scratch_exists, scratch_made, guard, copy_runs, dest,
                   dest_before, dest_parent, dest_parent_before, malformed, proc_output,
                   built, copied_from>>
    /\ UNCHANGED <<tvars, bvars, mvars, pvars, evars>>

\* A faulty variant: the exit status of cargo is not looked at.
L_BuildExitIgnoringStatus ==
    /\ cpath = "legacy" /\ cpc = "building"
    /\ \E success \in BOOLEAN, out \in ProcOutputs :
          /\ build_status' = IF success THEN "ok" ELSE "failed"
          /\ proc_output' = out
          /\ built' \in (IF success THEN SUBSET Places ELSE {{}})
          /\ stages' = Finish(stages, IF success THEN "ok" ELSE "failed")
          /\ cpc' = "copy"
          /\ UNCHANGED <<result, failed_at, error>>
    /\ UNCHANGED <<cpath, keep, scratch_exists, scratch_made, guard, scratch_files,
                   build_runs, copy_runs, dest, dest_before, dest_parent,
                   dest_parent_before, malformed, copied_from>>
    /\ UNCHANGED <<tvars, bvars, mvars, pvars, evars>>

\* A faulty variant: a failed cargo build is started once more.
L_BuildExitRetrying ==
    /\ cpath = "legacy" /\ cpc = "building"
    /\ \E success \in BOOLEAN, out \in ProcOutputs, code \in ExitCodes :
          /\ proc_output' = out
          /\ IF success
             THEN /\ build_status' = "ok"
                  /\ built' \in SUBSET Places
                  /\ stages' = Finish(stages, "ok")
                  /\ cpc' = "copy"
                  /\ UNCHANGED <<result, failed_at, error>>
             ELSE /\ build_status' = "failed"
                  /\ built' = {}
                  /\ stages' = Finish(stages, "failed")
                  /\ IF build_runs < 2
                     THEN /\ cpc' = "build"
                          /\ UNCHANGED <<result, failed_at, error>>
                     ELSE /\ result' = "Err" /\ failed_at' = "build" /\ cpc' = "returned"
                          /\ error' = << <<"Failed to build Rust project">>,
                                         <<"Cargo build failed with status: ", code>> >>
    /\ UNCHANGED <<cpath, keep, scratch_exists, scratch_made, guard, scratch_files,
                   build_runs, copy_runs, dest, dest_before, dest_parent,
                   dest_parent_before, malformed, copied_from>>
    /\ UNCHANGED <<tvars, bvars, mvars, pvars, evars>>

\* build_rust_project, from the exit of cargo: if !status.success() the error
\* is built from the exit status alone; the output of cargo went to the
\* inherited stdout / stderr and is not read.
L_BuildExit ==
    /\ cpath = "legacy" /\ cpc = "building"
    /\ \E success \in BOOLEAN, out \in ProcOutputs, code \in ExitCodes :
          /\ proc_output' = out
          /\ IF success
             THEN /\ build_status' = "ok"
                  /\ built' \in SUBSET Places
                  /\ stages' = Finish(stages, "ok")
                  /\ cpc' = "copy"
                  /\ UNCHANGED <<result, failed_at, error>>
             ELSE /\ build_status' = "failed"
                  /\ built' = {}
                  /\ stages' = Finish(stages, "failed")
                  /\ result' = "Err" /\ failed_at' = "build" /\ cpc' = "returned"
                  /\ error' = << <<"Failed to build Rust project">>,
                                 <<"Cargo build failed with status: ", code>> >>
    /\ UNCHANGED <<cpath, keep, scratch_exists, scratch_made, guard, scratch_files,
                   build_runs, copy_runs, dest, dest_before, dest_parent,
                   dest_parent_before, malformed, copied_from>>
    /\ UNCHANGED <<tvars, bvars, mvars, pvars, evars>>

\* The copy of a located artifact: create_dir_all(parent), fs::copy. A copy
\* that fails may have created or truncated the destination already.
CopyTo(outcome) ==
    CASE outcome = "ok" ->
          /\ dest_parent' = TRUE
          /\ dest' = "artifact"
      [] outcome = "mkdir_error" ->
          /\ UNCHANGED <<dest_parent, dest>>
      [] outcome = "copy_error" ->
          /\ dest_parent' = TRUE
          /\ dest' \in {dest, "partial"}

\* The error of a failed copy: create_dir_all or fs::copy with its context.
CopyError(outcome, mkdir_context) ==
    IF outcome = "mkdir_error"
    THEN << <<mkdir_context, "parent">>, <<"io::Error">> >>
    ELSE << <<"Failed to copy ", "library", " to ", "output_path">>, <<"io::Error">> >>

\* What copy_compiled_library finds: the file at the exact path if it
\* exists, else a file with the library extension among the entries of
\* target/release itself (fs::read_dir lists one directory, not its
\* subdirectories), else nothing.
L_Located ==
    IF "exact" \in built THEN "exact"
    ELSE IF "top" \in built THEN "top"
    ELSE "none"

\* A faulty variant: the parent of the output path is created before the
\* library is looked for.
L_CopyCompiledLibraryMkdirFirst ==
    /\ cpath = "legacy" /\ cpc = "copy"
    /\ copy_runs' = copy_runs + 1
    /\ \E outcome \in (IF L_Located = "none" THEN {"not_found"} ELSE {"ok", "copy_error"}) :
          /\ IF outcome = "not_found"
             THEN /\ dest_parent' = TRUE
                  /\ UNCHANGED dest
                  /\ error' = << <<"Failed to copy compiled library to ", "output_path">>,
                                 <<"No compiled library found in ", "release_dir">> >>
             ELSE /\ CopyTo(outcome)
                  /\ error' = IF outcome = "ok" THEN error
                              ELSE << <<"Failed to copy compiled library to ", "output_path">> >>
                                   \o CopyError(outcome, "Failed to create directory: ")
          /\ copied_from' = IF outcome = "not_found" THEN "none" ELSE L_Located
          /\ result' = IF outcome = "ok" THEN "Ok" ELSE "Err"
          /\ failed_at' = IF outcome = "ok" THEN "none" ELSE "copy"
          /\ stages' = Append(stages, Stage("copy", IF outcome = "ok" THEN "ok" ELSE "failed"))
          /\ cpc' = "returned"
    /\ UNCHANGED <<cpath, keep, scratch_exists, scratch_made, guard, scratch_files,
                   build_status, build_runs, dest_before, dest_parent_before, malformed,
                   proc_output, built>>
    /\ UNCHANGED <<tvars, bvars, mvars, pvars, evars>>

\* copy_compiled_library: look for the library in target/release; copy it.
L_CopyCompiledLibrary ==
    /\ cpath = "legacy" /\ cpc = "copy"
    /\ copy_runs' = copy_runs + 1
    /\ \E outcome \in (IF L_Located = "none" THEN {"not_found"}
                       ELSE {"ok", "mkdir_error", "copy_error"})
                      \cup (IF "exact" \in built THEN {} ELSE {"read_dir_error"}) :
          /\ IF outcome \in {"ok", "mkdir_error", "copy_error"}
             THEN CopyTo(outcome)
             ELSE UNCHANGED <<dest_parent, dest>>
          /\ copied_from' = IF outcome \in {"ok", "copy_error"} THEN L_Located ELSE "none"
          /\ error' =
                IF outcome = "ok" THEN error
                ELSE << <<"Failed to copy compiled library to ", "output_path">> >>
                     \o CASE outcome = "not_found" ->
                               << <<"No compiled library found in ", "release_dir">> >>
                          [] outcome = "read_dir_error" ->
                               << <<"Failed to read directory: ", "release_dir">>,
                                  <<"io::Error">> >>
                          [] OTHER -> CopyError(outcome, "Failed to create directory: ")
          /\ result' = IF outcome = "ok" THEN "Ok" ELSE "Err"
          /\ failed_at' = IF outcome = "ok" THEN "none" ELSE "copy"
          /\ stages' = Append(stages, Stage("copy", IF outcome = "ok" THEN "ok" ELSE "failed"))
          /\ cpc' = "returned"
    /\ UNCHANGED <<cpath, keep, scratch_exists, scratch_made, guard, scratch_files,
                   build_status, build_runs, dest_before, dest_parent_before, malformed,
                   proc_output, built>>
    /\ UNCHANGED <<tvars, bvars, mvars, pvars, evars>>

\* uv_compiler::compile_file, lines 52-62: TempDir::new(); with the keep flag
\* the TempDir is turned into a plain path (into_path) and owns nothing.
U_TempDir ==
    /\ cpath = "uv" /\ cpc = "start"
    /\ \E ok \in BOOLEAN :
          IF ok
          THEN /\ scratch_exists' = TRUE
               /\ scratch_made' = TRUE
               /\ guard' = ~keep
               /\ cpc' = "prepare"
               /\ UNCHANGED <<result, failed_at, error>>
          ELSE /\ UNCHANGED <<scratch_exists, scratch_made, guard>>
               /\ result' = "Err" /\ failed_at' = "tempdir" /\ cpc' = "returned"
               /\ error' = << <<"Failed to create temporary directory">>, <<"io::Error">> >>
    /\ UNCHANGED <<cpath, keep, scratch_files, build_status, build_runs, copy_runs, dest,
                   dest_before, dest_parent, dest_parent_before, malformed, stages,
                   proc_output, built, copied_from>>
    /\ UNCHANGED <<tvars, bvars, mvars, pvars, evars>>

\* The uv path returns an error from a stage after the TempDir was made.
U_Fail(stage, files) ==
    /\ result' = "Err" /\ failed_at' = stage /\ cpc' = "returned"
    /\ guard' = FALSE
    /\ scratch_exists' = (scratch_exists /\ ~guard)
    /\ scratch_files' = IF guard THEN {} ELSE files

\* lines 66-85: file_stem, read_to_string, generate_setup_py, write setup.py
\* and <module>.py into the scratch directory. The source text is copied as
\* it is; it is not parsed.
U_Prepare ==
    /\ cpath = "uv" /\ cpc = "prepare"
    /\ \E outcome \in {"ok", "bad_stem", "read_error", "write_setup_error",
                       "write_source_error"} :
          /\ CASE outcome = "ok" ->
                   /\ scratch_files' = {"setup.py", "module.py"}
                   /\ cpc' = "uv_env"
                   /\ UNCHANGED <<result, failed_at, guard, scratch_exists, error>>
               [] outcome = "bad_stem" ->
                   /\ U_Fail("prepare", {})
                   /\ error' = << <<"Invalid input file name">> >>
               [] outcome = "read_error" ->
                   /\ U_Fail("prepare", {})
                   /\ error' = << <<"Failed to read input file: ", "input_path">>,
                                  <<"io::Error">> >>
               [] outcome = "write_setup_error" ->
                   /\ U_Fail("prepare", {})
                   /\ error' = << <<"Failed to write setup.py to ", "setup_py_path">>,
                                  <<"io::Error">> >>
               [] outcome = "write_source_error" ->
                   /\ U_Fail("prepare", {"setup.py"})
                   /\ error' = << <<"Failed to write source file to ", "source_path">>,
                                  <<"io::Error">> >>
          /\ stages' = stages \o
                CASE outcome \in {"bad_stem", "read_error"} -> <<Stage("read", "failed")>>
                  [] outcome \in {"write_setup_error", "write_source_error"} ->
                        <<Stage("read", "ok"), Stage("emit", "ok"), Stage("write", "failed")>>
                  [] outcome = "ok" ->
                        <<Stage("read", "ok"), Stage("emit", "ok"), Stage("write", "ok")>>
    /\ UNCHANGED <<cpath, keep, scratch_made, build_status, build_runs, copy_runs, dest,
                   dest_before, dest_parent, dest_parent_before, malformed, proc_output,
                   built, copied_from>>
    /\ UNCHANGED <<tvars, bvars, mvars, pvars, evars>>

\* lines 87-105: UvEnv::create(&uv_config).
U_CreateEnv ==
    /\ cpath = "uv" /\ cpc = "uv_env"
    /\ \E ok \in BOOLEAN :
          /\ IF ok
             THEN /\ cpc' = "build"
                  /\ UNCHANGED <<result, failed_at, guard, scratch_exists, scratch_files,
                                 error>>
             ELSE /\ U_Fail("uv_env", scratch_files)
                  /\ error' = << <<"Failed to create uv virtual environment">>,
                                 <<"UvEnv::create error">> >>
          /\ stages' = Append(stages, Stage("env", IF ok THEN "ok" ELSE "failed"))
    /\ UNCHANGED <<cpath, keep, scratch_made, build_status, build_runs, copy_runs, dest,
                   dest_before, dest_parent, dest_parent_before, malformed, proc_output,
                   built, copied_from>>
    /\ UNCHANGED <<tvars, bvars, mvars, pvars, evars>>

\* lines 115-121: spawn `python setup.py build_ext --inplace` in the scratch
\* directory with the inherited stdout / stderr.
U_BuildStart ==
    /\ cpath = "uv" /\ cpc = "build"
    /\ \E spawned \in BOOLEAN :
          /\ IF spawned
             THEN /\ build_status' = "running"
                  /\ build_runs' = build_runs + 1
                  /\ cpc' = "building"
                  /\ UNCHANGED <<result, failed_at, guard, scratch_exists, scratch_files,
                                 error>>
             ELSE /\ U_Fail("build_setup", scratch_files)
                  /\ error' = << <<"Failed to execute Python setup.py build_ext">>,
                                 <<"io::Error">> >>
                  /\ UNCHANGED <<build_status, build_runs>>
          /\ stages' = Append(stages, Stage("build", IF spawned THEN "running" ELSE "failed"))
    /\ UNCHANGED <<cpath, keep, scratch_made, copy_runs, dest, dest_before, dest_parent,
                   dest_parent_before, malformed, proc_output, built, copied_from>>
    /\ UNCHANGED <<tvars, bvars, mvars, pvars, evars>>

\* lines 123-125: if !status.success() { return Err(anyhow!("Failed to
\* build extension module")) }.
U_BuildExit ==
    /\ cpath = "uv" /\ cpc = "building"
    /\ \E success \in BOOLEAN, out \in ProcOutputs :
          /\ proc_output' = out
          /\ IF success
             THEN /\ build_status' = "ok"
                  /\ built' \in SUBSET {"top", "nested"}
                  /\ cpc' = "copy"
                  /\ UNCHANGED <<result, failed_at, guard, scratch_exists, scratch_files,
                                 error>>
             ELSE /\ build_status' = "failed"
                  /\ built' = {}
                  /\ U_Fail("build", scratch_files)
                  /\ error' = << <<"Failed to build extension module">> >>
          /\ stages' = Finish(stages, IF success THEN "ok" ELSE "failed")
    /\ UNCHANGED <<cpath, keep, scratch_made, build_runs, copy_runs, dest, dest_before,
                   dest_parent, dest_parent_before, malformed, copied_from>>
    /\ UNCHANGED <<tvars, bvars, mvars, pvars, evars>>

\* lines 127-167: walk the scratch directory and everything below it
\* (walkdir::WalkDir) for the first file with the extension, copy it to
\* output_path, return Ok. Which of several files comes first is the order
\* of the directory entries.
U_FindAndCopy ==
    /\ cpath = "uv" /\ cpc = "copy"
    /\ copy_runs' = copy_runs + 1
    /\ \E found \in (IF built = {} THEN {"none"} ELSE built) :
       \E outcome \in (IF found = "none" THEN {"not_found", "walk_error"}
                       ELSE {"ok", "walk_error", "mkdir_error", "copy_error"}) :
          /\ IF outcome \in {"ok", "mkdir_error", "copy_error"}
             THEN CopyTo(outcome)
             ELSE UNCHANGED <<dest_parent, dest>>
          /\ copied_from' = IF outcome \in {"ok", "copy_error"} THEN found ELSE "none"
          /\ error' =
                CASE outcome = "ok" -> error
                  [] outcome = "not_found" ->
                        << <<"Failed to find compiled extension module">> >>
                  [] outcome = "walk_error" -> << <<"walkdir::Error">> >>
                  [] OTHER -> CopyError(outcome, "Failed to create output directory: ")
          /\ result' = IF outcome = "ok" THEN "Ok" ELSE "Err"
          /\ failed_at' = IF outcome = "ok" THEN "none" ELSE "copy"
          /\ stages' = Append(stages, Stage("copy", IF outcome = "ok" THEN "ok" ELSE "failed"))
          /\ cpc' = "returned"
          /\ guard' = FALSE
          /\ scratch_exists' = (scratch_exists /\ ~guard)
          /\ scratch_files' = IF guard THEN {} ELSE scratch_files \cup {"build"}
    /\ UNCHANGED <<cpath, keep, scratch_made, build_status, build_runs, dest_before,
                   dest_parent_before, malformed, proc_output, built>>
    /\ UNCHANGED <<tvars, bvars, mvars, pvars, evars>>

NextUnit ==
    \/ L_TransformFile \/ L_CreateRustProject \/ L_BuildStart \/ L_BuildExit
    \/ L_CopyCompiledLibrary
    \/ U_TempDir \/ U_Prepare \/ U_CreateEnv \/ U_BuildStart \/ U_BuildExit
    \/ U_FindAndCopy

SpecUnit == InitUnit /\ [][NextUnit]_vars

(***************************************************************************)
(* Paths. A path is absolute or relative and has components; a component   *)
(* has a stem and an extension ("" for none). The operators follow         *)
(* std::path: join replaces the base when the joined path is absolute,     *)
(* strip_prefix compares whole components, set_extension rewrites the      *)
(* extension of the last component.                                        *)
(***************************************************************************)
Comp(stem, ext) == [stem |-> stem, ext |-> ext]

Dir(name) == Comp(name, "")

Rel(comps) == [abs |-> FALSE, comps |-> comps]

Abs(comps) == [abs |-> TRUE, comps |-> comps]

join(base, path) ==
    IF path.abs THEN path
    ELSE [abs |-> base.abs, comps |-> base.comps \o path.comps]

\* Result<&Path, StripPrefixError>
strip_prefix(path, base) ==
    IF /\ path.abs = base.abs
       /\ Len(base.comps) <= Len(path.comps)
       /\ SubSeq(path.comps, 1, Len(base.comps)) = base.comps
    THEN [ok |-> TRUE,
          path |-> Rel(SubSeq(path.comps, Len(base.comps) + 1, Len(path.comps)))]
    ELSE [ok |-> FALSE, path |-> NoPath]

\* Does nothing when the path has no file name.
set_extension(path, ext) ==
    IF path.comps = <<>> THEN path
    ELSE [path EXCEPT !.comps[Len(path.comps)].ext = ext]

extension(path) ==
    IF path.comps = <<>> THEN "" ELSE path.comps[Len(path.comps)].ext

HasParent(path) == path.comps # <<>>

(***************************************************************************)
(* The input tree of a batch: directory proj (at /w/proj, the working      *)
(* directory being /w) with MaxFiles Python files, every second one in     *)
(* proj/sub, and a file that is no Python file.                            *)
(***************************************************************************)
Stems == <<"a", "b", "c", "d", "e">>

TreeFile(k) ==
    IF k % 2 = 1 THEN <<Comp(Stems[k], "py")>>
    ELSE <<Dir("sub"), Comp(Stems[k], "py")>>

\* The files below proj, as component sequences relative to proj.
TreeFiles == {TreeFile(k) : k \in 1..MaxFiles} \cup {<<Comp("notes", "txt")>>}

ProjRel == Rel(<<Dir("proj")>>)

ProjAbs == Abs(<<Dir("w"), Dir("proj")>>)

\* The input arguments tried: the directory and a glob for its Python files,
\* each given relative and absolute.
InputPatterns ==
    {[is_dir |-> TRUE, path |-> root] : root \in {ProjRel, ProjAbs}}
    \cup {[is_dir |-> FALSE, path |-> join(root, Rel(<<Comp("*", "py")>>))] :
            root \in {ProjRel, ProjAbs}}

OutputDirs == {Rel(<<Dir("out")>>), Abs(<<Dir("w"), Dir("out")>>)}

\* glob: a pattern component matches a name component when they are equal
\* or the pattern's stem is * and the extensions agree.
GlobMatches(pattern, comps) ==
    /\ Len(pattern) = Len(comps)
    /\ \A i \in 1..Len(comps) :
          \/ pattern[i] = comps[i]
          \/ pattern[i].stem = "*" /\ pattern[i].ext = comps[i].ext

\* The paths the directory walk, the directory listing or the glob yields,
\* before the is_file / extension filter.
Enumerated(pattern, rec) ==
    IF pattern.is_dir
    THEN {join(pattern.path, Rel(f)) : f \in {g \in TreeFiles : rec \/ Len(g) = 1}}
    ELSE LET root == IF pattern.path.abs THEN ProjAbs ELSE ProjRel
         IN  {join(root, Rel(f)) :
                 f \in {g \in TreeFiles : GlobMatches(pattern.path.comps, root.comps \o g)}}

\* path.is_file() && path.extension() == "py"
Collected(pattern, rec) == {f \in Enumerated(pattern, rec) : extension(f) = "py"}

RECURSIVE Orderings(_)
Orderings(S) ==
    IF S = {} THEN {<<>>}
    ELSE UNION {{<<x>> \o rest : rest \in Orderings(S \ {x})} : x \in S}

\* collect_python_files: the matching files in the order the file system
\* yields them.
collect_python_files(pattern, rec) == Orderings(Collected(pattern, rec))

PlatformExtension == IF windows THEN "pyd" ELSE "so"

\* batch_compile, lines 87-97: strip_prefix(input_pattern).unwrap_or(&input_path),
\* output_dir.join(relative_path), set_extension.
OutputPath(input_path) ==
    LET stripped == strip_prefix(input_path, input_pattern.path)
        relative == IF stripped.ok THEN stripped.path ELSE input_path
    IN  set_extension(join(output_dir, relative), PlatformExtension)

\* What compile_file returns for a unit: Ok, or the error of one of its stages.
UnitOutcomes == {"none", "transform", "build", "copy"}

InitBatch ==
    /\ TransformerIdle /\ UnitIdle /\ MainIdle /\ PythonEnvIdle /\ UvEnvIdle
    /\ windows \in BOOLEAN
    /\ input_pattern \in InputPatterns
    /\ recursive \in BOOLEAN
    /\ output_dir \in OutputDirs
    /\ python_files = <<>> /\ idx = 1
    /\ success_count = 0 /\ failure_count = 0
    /\ attempts = <<>>
    /\ bpc = "start" /\ bresult = "none"

\* batch_compile up to the loop: create_dir_all(output_dir)?,
\* collect_python_files(..)?, the two counters.
B_Collect ==
    /\ bpc = "start"
    /\ \E outcome \in {"ok", "mkdir_error", "collect_error"} :
          IF outcome = "ok"
          THEN /\ python_files' \in collect_python_files(input_pattern, recursive)
               /\ bpc' = "loop"
               /\ UNCHANGED bresult
          ELSE /\ bresult' = "Err"
               /\ bpc' = "done"
               /\ UNCHANGED python_files
    /\ UNCHANGED <<windows, input_pattern, recursive, output_dir, idx, success_count,
                   failure_count, attempts>>
    /\ UNCHANGED <<tvars, uvars, mvars, pvars, evars>>

\* One iteration of the loop: the output path, create_dir_all(parent)?,
\* compile_file, one counter.
B_Unit ==
    /\ bpc = "loop" /\ idx <= Len(python_files)
    /\ LET input_path == python_files[idx]
           output_path == OutputPath(input_path)
       IN  \E parent_ok \in BOOLEAN, outcome \in UnitOutcomes :
              IF HasParent(output_path) /\ ~parent_ok
              THEN /\ bresult' = "Err"
                   /\ bpc' = "done"
                   /\ UNCHANGED <<idx, success_count, failure_count, attempts>>
              ELSE /\ attempts' = Append(attempts,
                        [input |-> input_path, output |-> output_path,
                         outcome |-> outcome])
                   /\ IF outcome = "none"
                      THEN /\ success_count' = success_count + 1
                           /\ UNCHANGED failure_count
                      ELSE /\ failure_count' = failure_count + 1
                           /\ UNCHANGED success_count
                   /\ idx' = idx + 1
                   /\ UNCHANGED <<bpc, bresult>>
    /\ UNCHANGED <<windows, input_pattern, recursive, output_dir, python_files>>
    /\ UNCHANGED <<tvars, uvars, mvars, pvars, evars>>

\* After the loop: the summary is logged and Ok(()) returned.
B_Finish ==
    /\ bpc = "loop" /\ idx > Len(python_files)
    /\ bresult' = "Ok"
    /\ bpc' = "done"
    /\ UNCHANGED <<windows, input_pattern, recursive, output_dir, python_files, idx,
                   success_count, failure_count, attempts>>
    /\ UNCHANGED <<tvars, uvars, mvars, pvars, evars>>

NextBatch == B_Collect \/ B_Unit \/ B_Finish

SpecBatch == InitBatch /\ [][NextBatch]_vars

(***************************************************************************)
(* src/build_tools.rs: the toolchain probe.                                *)
(***************************************************************************)
Platforms == {"windows", "linux", "macos"}

\* What the probe asks the system for: the programs looked up with which(),
\* the answer of `where devenv.exe`, and the developer directory that
\* `xcode-select -p` names.
Probed == {"cl", "devenv", "gcc", "dlltool", "xcode-select", "developer-dir"}

\* Option<PathBuf>: None, or Some(path).
None == <<>>

Some(path) == <<path>>

\* path.display(): the components with their separators, as text fragments.
RECURSIVE DisplayComps(_)
DisplayComps(comps) ==
    IF comps = <<>> THEN <<>>
    ELSE (IF Head(comps).ext = "" THEN <<Head(comps).stem>>
          ELSE <<Head(comps).stem, ".", Head(comps).ext>>)
         \o (IF Len(comps) > 1 THEN <<"/">> ELSE <<>>)
         \o DisplayComps(Tail(comps))

display(path) == (IF path.abs THEN <<"/">> ELSE <<>>) \o DisplayComps(path.comps)

\* The path which() returns for a program.
which(program) == Abs(<<Dir("tools"), Dir("bin"), Comp(program, "")>>)

parent(path) == [path EXCEPT !.comps = SubSeq(path.comps, 1, Len(path.comps) - 1)]

DeveloperDir == Abs(<<Dir("Library"), Dir("Developer"), Dir("CommandLineTools")>>)

detect_build_tools(pf, found) ==
    [msvc_path    |-> IF "cl" \in found THEN Some(which("cl")) ELSE None,
     mingw_path   |-> IF "gcc" \in found THEN Some(which("gcc")) ELSE None,
     dlltool_path |-> IF "dlltool" \in found THEN Some(which("dlltool")) ELSE None,
     vs_path      |-> IF "cl" \in found /\ "devenv" \in found
                      THEN Some(parent(parent(which("devenv")))) ELSE None,
     gcc_path     |-> IF pf \in {"linux", "macos"} /\ "gcc" \in found
                      THEN Some(which("gcc")) ELSE None,
     xcode_path   |-> IF pf = "macos" /\ "xcode-select" \in found /\ "developer-dir" \in found
                      THEN Some(DeveloperDir) ELSE None]

has_msvc(t) == t.msvc_path # None

has_mingw(t) == t.mingw_path # None /\ t.dlltool_path # None

has_gcc(t) == t.gcc_path # None

has_xcode(t) == t.xcode_path # None

\* A faulty variant: any path that was found counts as a usable toolchain.
has_any_path(t) == \E f \in DOMAIN t : t[f] # None

has_any_tools(t) == has_msvc(t) \/ has_mingw(t) \/ has_gcc(t) \/ has_xcode(t)

\* One line of get_tools_info, if the path is there.
InfoLine(label, path) ==
    IF path = None THEN <<>> ELSE << <<label>> \o display(path[1]) >>

get_tools_info(t) ==
    LET info == InfoLine("MSVC: ", t.msvc_path)
                \o InfoLine("MinGW: ", t.mingw_path)
                \o InfoLine("dlltool: ", t.dlltool_path)
                \o InfoLine("Visual Studio: ", t.vs_path)
                \o InfoLine("GCC: ", t.gcc_path)
                \o InfoLine("Xcode Command Line Tools: ", t.xcode_path)
    IN  IF info = <<>> THEN << <<"No build tools found">> >> ELSE info

get_build_tools_installation_instructions(pf) ==
    IF pf = "windows"
    THEN <<"To install the required build tools on Windows, you have two options:",
           "1. Install Visual Studio Build Tools (Recommended):",
           "2. Install MinGW-w64:",
           "After installation, try running py2pyd again.">>
    ELSE <<"To install the required build tools on Linux/macOS:",
           "1. On Ubuntu/Debian:",
           "2. On macOS:",
           "After installation, try running py2pyd again.">>

\* Result<BuildTools>: the tools, or the error message with the
\* instructions appended.
check_build_tools(pf, found) ==
    LET t == detect_build_tools(pf, found)
    IN  IF ~has_any_tools(t)
        THEN [ok |-> FALSE, tools |-> t,
              error |->
                 <<CASE pf = "windows" ->
                        "No suitable build tools found. You need either MSVC or MinGW to compile Python extensions."
                     [] pf = "macos" ->
                        "No suitable build tools found. You need Xcode Command Line Tools to compile Python extensions."
                     [] OTHER ->
                        "No suitable build tools found. You need GCC and development tools to compile Python extensions.">>
                 \o get_build_tools_installation_instructions(pf)]
        ELSE [ok |-> TRUE, tools |-> t, error |-> <<>>]

(***************************************************************************)
(* The probe as the library offers it (tests/build_tools_test.rs):         *)
(* detect_build_tools, then get_tools_info on what it returned.            *)
(***************************************************************************)
InitTools ==
    /\ TransformerIdle /\ UnitIdle /\ BatchIdle /\ PythonEnvIdle /\ UvEnvIdle
    /\ platform \in Platforms
    /\ on_path \in SUBSET Probed
    /\ use_uv = FALSE /\ command = "none"
    /\ tools = Unset /\ tools_info = Unset /\ check_result = "none"
    /\ main_error = <<>>
    /\ provision_runs = 0 /\ build_cmd_runs = 0
    /\ exit_code = -1 /\ mpc = "probe"

DetectBuildTools ==
    /\ mpc = "probe"
    /\ tools' = detect_build_tools(platform, on_path)
    /\ mpc' = "detected"
    /\ UNCHANGED <<platform, on_path, use_uv, command, tools_info, check_result,
                   main_error, provision_runs, build_cmd_runs, exit_code>>
    /\ UNCHANGED <<tvars, uvars, bvars, pvars, evars>>

GetToolsInfo ==
    /\ mpc = "detected"
    /\ tools_info' = get_tools_info(tools)
    /\ mpc' = "info"
    /\ UNCHANGED <<platform, on_path, use_uv, command, tools, check_result,
                   main_error, provision_runs, build_cmd_runs, exit_code>>
    /\ UNCHANGED <<tvars, uvars, bvars, pvars, evars>>

NextTools == DetectBuildTools \/ GetToolsInfo

SpecTools == InitTools /\ [][NextTools]_vars

(***************************************************************************)
(* src/main.rs: main. The probe comes first; then, by --use-uv, the uv     *)
(* compiler (which provisions its environment inside compile_file) or      *)
(* initialize_python_env followed by the cargo compiler. The units of a    *)
(* batch are represented by one unit.                                      *)
(***************************************************************************)
InitMain ==
    /\ TransformerIdle /\ UnitIdle /\ BatchIdle /\ PythonEnvIdle /\ UvEnvIdle
    /\ platform \in Platforms
    /\ on_path \in SUBSET Probed
    /\ use_uv \in BOOLEAN
    /\ command \in {"compile", "batch"}
    /\ tools = Unset /\ tools_info = Unset /\ check_result = "none"
    /\ main_error = <<>>
    /\ provision_runs = 0 /\ build_cmd_runs = 0
    /\ exit_code = -1 /\ mpc = "start"

\* main returns the error of a step: the process exits with code 1.
M_Fail(context, messages) ==
    /\ main_error' = << <<context>> >> \o messages
    /\ exit_code' = 1
    /\ mpc' = "exit"

\* A unit fails inside compile_file or batch_compile: main returns the
\* error for the compile command; batch_compile counts it and returns Ok.
M_UnitFails(messages) ==
    IF command = "compile"
    THEN M_Fail("Failed to compile ", messages)
    ELSE /\ exit_code' = 0
         /\ mpc' = "exit"
         /\ UNCHANGED main_error

\* lines 108-113: check_build_tools()?, then the tools are logged.
M_CheckBuildTools ==
    /\ mpc = "start"
    /\ LET checked == check_build_tools(platform, on_path)
       IN  /\ tools' = checked.tools
           /\ IF checked.ok
              THEN /\ check_result' = "Ok"
                   /\ tools_info' = get_tools_info(checked.tools)
                   /\ mpc' = "checked"
                   /\ UNCHANGED <<main_error, exit_code>>
              ELSE /\ check_result' = "Err"
                   /\ M_Fail("Failed to check build tools", <<checked.error>>)
                   /\ UNCHANGED tools_info
    /\ UNCHANGED <<platform, on_path, use_uv, command, provision_runs, build_cmd_runs>>
    /\ UNCHANGED <<tvars, uvars, bvars, pvars, evars>>

\* The environment: UvEnv::create inside uv_compiler::compile_file, which
\* can fail before it gets there, or initialize_python_env in main. The uv
\* batch can fail before its first unit (create_dir_all, collect).
M_Provision ==
    /\ mpc = "checked"
    /\ \E outcome \in {"ok", "error"} \cup (IF use_uv THEN {"early_error"} ELSE {})
                      \cup (IF use_uv /\ command = "batch" THEN {"batch_error"} ELSE {}) :
          CASE outcome = "ok" ->
                /\ provision_runs' = provision_runs + 1
                /\ mpc' = "provisioned"
                /\ UNCHANGED <<main_error, exit_code>>
            [] outcome = "error" ->
                /\ provision_runs' = provision_runs + 1
                /\ IF use_uv
                   THEN M_UnitFails(<< <<"Failed to create uv virtual environment">> >>)
                   ELSE M_Fail("Failed to initialize Python environment", <<>>)
            [] outcome = "early_error" ->
                /\ UNCHANGED provision_runs
                /\ M_UnitFails(<< <<"Failed to create temporary directory">> >>)
            [] outcome = "batch_error" ->
                /\ UNCHANGED provision_runs
                /\ M_Fail("Failed to batch compile", << <<"io::Error">> >>)
    /\ UNCHANGED <<platform, on_path, use_uv, command, tools, tools_info, check_result,
                   build_cmd_runs>>
    /\ UNCHANGED <<tvars, uvars, bvars, pvars, evars>>

\* The build command of the unit; on the cargo path transform_file or
\* create_rust_project can fail before it is started.
M_Build ==
    /\ mpc = "provisioned"
    /\ \E outcome \in {"ok", "failed"} \cup (IF use_uv THEN {} ELSE {"not_started"})
                      \cup (IF ~use_uv /\ command = "batch" THEN {"batch_error"} ELSE {}) :
          CASE outcome = "ok" ->
                /\ build_cmd_runs' = build_cmd_runs + 1
                /\ mpc' = "built"
                /\ UNCHANGED <<main_error, exit_code>>
            [] outcome = "failed" ->
                /\ build_cmd_runs' = build_cmd_runs + 1
                /\ M_UnitFails(<< <<"Failed to build">> >>)
            [] outcome = "not_started" ->
                /\ UNCHANGED build_cmd_runs
                /\ M_UnitFails(<< <<"Failed to transform Python file: ", "input_path">> >>)
            [] outcome = "batch_error" ->
                /\ UNCHANGED build_cmd_runs
                /\ M_Fail("Failed to batch compile", << <<"io::Error">> >>)
    /\ UNCHANGED <<platform, on_path, use_uv, command, tools, tools_info, check_result,
                   provision_runs>>
    /\ UNCHANGED <<tvars, uvars, bvars, pvars, evars>>

\* The artifact is copied (or not), the virtual environment is cleaned up,
\* main returns.
M_Finish ==
    /\ mpc = "built"
    /\ \E copied \in BOOLEAN :
          IF copied
          THEN /\ exit_code' = 0
               /\ mpc' = "exit"
               /\ UNCHANGED main_error
          ELSE M_UnitFails(<< <<"Failed to copy">> >>)
    /\ UNCHANGED <<platform, on_path, use_uv, command, tools, tools_info, check_result,
                   provision_runs, build_cmd_runs>>
    /\ UNCHANGED <<tvars, uvars, bvars, pvars, evars>>

NextMain == M_CheckBuildTools \/ M_Provision \/ M_Build \/ M_Finish

SpecMain == InitMain /\ [][NextMain]_vars

(***************************************************************************)
(* src/transformer/mod.rs: transform_file. A file name is the sequence of  *)
(* its pieces between dots: my.module.py is <<"my", "module", "py">>,       *)
(* .hidden is <<"", "hidden">>. A piece that is not valid UTF-8 is the      *)
(* piece NotUtf8.                                                          *)
(***************************************************************************)
NotUtf8 == "<not UTF-8>"

\* The stems of the input files tried.
StemsTried ==
    { <<"mathmod">>, <<"my_module">>, <<"my-module">>, <<"my", "module">>,
      <<"class">>, <<"123abc">>, <<NotUtf8>> }

InputFiles == {st \o <<"py">> : st \in StemsTried}

\* A faulty variant: the name is cut at its first dot (Path::file_prefix).
file_prefix(name) ==
    IF Len(name) = 1 \/ (Len(name) = 2 /\ name[1] = "") THEN name
    ELSE IF name[1] = "" THEN SubSeq(name, 1, 2)
    ELSE SubSeq(name, 1, 1)

\* Path::file_stem: the whole name if it has no dot or only a leading one,
\* else the part before the last dot.
file_stem(name) ==
    IF Len(name) = 1 \/ (Len(name) = 2 /\ name[1] = "") THEN name
    ELSE SubSeq(name, 1, Len(name) - 1)

\* OsStr::to_str: the text if it is valid UTF-8.
to_str(pieces) ==
    IF \E i \in 1..Len(pieces) : pieces[i] = NotUtf8 THEN None ELSE Some(pieces)

\* The suites transform_file is tried on.
FileSuites == {su \in Suites : Len(su) <= 1}

InitTransformFile ==
    /\ UnitIdle /\ BatchIdle /\ MainIdle /\ PythonEnvIdle /\ UvEnvIdle
    /\ ast \in FileSuites
    /\ input_file \in InputFiles
    /\ optimize_level \in {0, 2, 3, U8Max}
    /\ module_name = ""
    /\ functions = Unset /\ classes = Unset /\ imports = Unset
    /\ from_imports = Unset /\ module_vars = Unset
    /\ rust_code = Unset /\ cargo_toml = Unset
    /\ tpc = "file"

\* transform_file: parse_file(input_path)?, file_stem().and_then(to_str),
\* transform_ast, generate_cargo_toml, tempfile::tempdir()?.
TransformFile ==
    /\ tpc = "file"
    /\ \E outcome \in {"ok", "parse_error", "tempdir_error"} :
          LET stem == to_str(file_stem(input_file))
          IN  IF outcome = "ok" /\ stem # None
              THEN /\ module_name' = stem[1]
                   /\ rust_code' = transform_ast(ast, stem[1], optimize_level)
                   /\ cargo_toml' = generate_cargo_toml(stem[1], optimize_level)
                   /\ tpc' = "file_transformed"
              ELSE /\ tpc' = "file_failed"
                   /\ UNCHANGED <<module_name, rust_code, cargo_toml>>
    /\ UNCHANGED <<ast, optimize_level, functions, classes, imports, from_imports,
                   module_vars, input_file>>
    /\ UNCHANGED <<uvars, bvars, mvars, pvars, evars>>

NextTransformFile == TransformFile

SpecTransformFile == InitTransformFile /\ [][NextTransformFile]_vars

(***************************************************************************)
(* src/python_env: the process-wide interpreter record behind a Mutex,     *)
(* initialize_python_env and get_python_path. A call holds the lock from   *)
(* its first line to its return; callers are the threads of the process.   *)
(***************************************************************************)
Versions == {"3.9", "3.11"}

ExplicitPython == "/opt/python/bin/python3"

PathPython == "/usr/bin/python3"

UvExe == "/usr/bin/uv"

\* get_venv_dir(): <data_dir>/py2pyd/venv, one directory for every call and run.
VenvDir == "/data/py2pyd/venv"

\* get_python_from_venv: <venv>/bin/python or <venv>\Scripts\python.exe.
VenvPython == "/data/py2pyd/venv/bin/python"

\* What the venv directory can hold when the process starts: nothing, or a
\* directory left by an earlier run, made for some version (or for uv's
\* default interpreter), and with or without the interpreter file in it.
VenvDirStates ==
    {None}
    \cup {Some([python |-> v, has_python |-> h, made_by |-> "earlier", command |-> <<>>]) :
            v \in Versions \cup {"default"}, h \in BOOLEAN}

NoCall ==
    [op |-> "none", python_path |-> None, python_version |-> None,
     env_before |-> NewEnvironment, after_success |-> FALSE, ran |-> {},
     uv_path |-> None, venv_path |-> None, ret |-> <<>>, env_after |-> NewEnvironment]

\* The call returns: the guard is dropped and the caller has its result.
PReturn(t, call, new_env) ==
    /\ pcall' = [pcall EXCEPT ![t] = [call EXCEPT !.env_after = new_env]]
    /\ env' = new_env
    /\ lock' = "free"
    /\ ppc' = [ppc EXCEPT ![t] = "returned"]
    /\ succeeded' = (succeeded \/ (call.op = "initialize" /\ call.ret[1] = "Ok"))

PFrame == UNCHANGED <<explicit_exists, path_python, uv_ok, keep_temp, removed>>

POther == UNCHANGED <<tvars, uvars, bvars, mvars, evars>>

\* A caller starts initialize_python_env(python_path, python_version).
I_Call(t) ==
    /\ ppc[t] = "idle"
    /\ \E pp \in {None, Some(ExplicitPython)}, pv \in {None} \cup {Some(v) : v \in Versions} :
          pcall' = [pcall EXCEPT ![t] =
                      [NoCall EXCEPT !.op = "initialize", !.python_path = pp,
                                     !.python_version = pv]]
    /\ ppc' = [ppc EXCEPT ![t] = "lock"]
    /\ UNCHANGED <<env, lock, venv_dir, succeeded, lpc>>
    /\ PFrame /\ POther

\* A faulty variant: every call locks a Mutex of its own.
I_LockPrivate(t) ==
    /\ ppc[t] = "lock"
    /\ lock' = t
    /\ pcall' = [pcall EXCEPT ![t].env_before = env, ![t].after_success = succeeded]
    /\ ppc' = [ppc EXCEPT ![t] = "check"]
    /\ UNCHANGED <<env, venv_dir, succeeded, lpc>>
    /\ PFrame /\ POther

\* let mut env = PYTHON_ENV.lock().unwrap();
I_Lock(t) ==
    /\ ppc[t] = "lock"
    /\ lock = "free"
    /\ lock' = t
    /\ pcall' = [pcall EXCEPT ![t].env_before = env, ![t].after_success = succeeded]
    /\ ppc' = [ppc EXCEPT ![t] = "check"]
    /\ UNCHANGED <<env, venv_dir, succeeded, lpc>>
    /\ PFrame /\ POther

\* A faulty variant: the initialized flag is not consulted.
I_CheckNoEarlyReturn(t) ==
    /\ ppc[t] = "check"
    /\ ppc' = [ppc EXCEPT ![t] = "explicit"]
    /\ UNCHANGED <<env, lock, pcall, venv_dir, succeeded, lpc>>
    /\ PFrame /\ POther

\* if env.initialized { return Ok(()); }
I_Check(t) ==
    /\ ppc[t] = "check"
    /\ IF env.initialized
       THEN PReturn(t, [pcall[t] EXCEPT !.ret = <<"Ok">>], env)
       ELSE /\ ppc' = [ppc EXCEPT ![t] = "explicit"]
            /\ UNCHANGED <<env, lock, pcall, succeeded>>
    /\ UNCHANGED <<venv_dir, lpc>>
    /\ PFrame /\ POther

\* 1. the explicitly provided interpreter, if the path exists
I_Explicit(t) ==
    /\ ppc[t] = "explicit"
    /\ IF pcall[t].python_path # None /\ explicit_exists
       THEN PReturn(t, [pcall[t] EXCEPT !.ret = <<"Ok">>],
                    [env EXCEPT !.python_path = pcall[t].python_path,
                                !.initialized = TRUE])
       ELSE /\ ppc' = [ppc EXCEPT ![t] = "find_in_path"]
            /\ UNCHANGED <<env, lock, pcall, succeeded>>
    /\ UNCHANGED <<venv_dir, lpc>>
    /\ PFrame /\ POther

\* 2. an interpreter in PATH, if no version is requested. find_python_in_path
\* runs `<python> --version` on what `which` finds and takes a Python 3.
I_FindInPath(t) ==
    /\ ppc[t] = "find_in_path"
    /\ IF pcall[t].python_version = None /\ path_python # "none"
       THEN LET ran == pcall[t].ran \cup {<<"python", "--version">>}
            IN  IF path_python = "python3"
                THEN PReturn(t, [pcall[t] EXCEPT !.ran = ran, !.ret = <<"Ok">>],
                             [env EXCEPT !.python_path = Some(PathPython),
                                         !.initialized = TRUE])
                ELSE /\ pcall' = [pcall EXCEPT ![t].ran = ran]
                     /\ ppc' = [ppc EXCEPT ![t] = "setup_uv"]
                     /\ UNCHANGED <<env, lock, succeeded>>
       ELSE /\ ppc' = [ppc EXCEPT ![t] = "setup_uv"]
            /\ UNCHANGED <<env, lock, pcall, succeeded>>
    /\ UNCHANGED <<venv_dir, lpc>>
    /\ PFrame /\ POther

\* 3. let uv_path = setup_uv()?; env.uv_path = Some(uv_path.clone());
I_SetupUv(t) ==
    /\ ppc[t] = "setup_uv"
    /\ LET ran == pcall[t].ran \cup {<<"setup_uv">>}
       IN  IF uv_ok
           THEN /\ pcall' = [pcall EXCEPT ![t].ran = ran, ![t].uv_path = Some(UvExe)]
                /\ env' = [env EXCEPT !.uv_path = Some(UvExe)]
                /\ ppc' = [ppc EXCEPT ![t] = "create_venv"]
                /\ UNCHANGED <<lock, succeeded>>
           ELSE PReturn(t, [pcall[t] EXCEPT !.ran = ran,
                                            !.ret = <<"Err", "Failed to download uv">>],
                        env)
    /\ UNCHANGED <<venv_dir, lpc>>
    /\ PFrame /\ POther

\* The `uv venv` command lines create_venv_with_uv_and_version and
\* create_venv_with_uv run, in the order they try them.
VenvCommands(version) ==
    IF version # None
    THEN << <<"uv", "venv", "create", "--python", version[1], VenvDir>> >>
    ELSE << <<"uv", "venv", "create", VenvDir>>, <<"uv", "venv", VenvDir>> >>

VenvErr(version) ==
    IF version # None
    THEN <<"Err", "Failed to create virtual environment with Python ", version[1]>>
    ELSE <<"Err", "Failed to create virtual environment">>

\* create_venv_with_uv_and_version / create_venv_with_uv: an existing
\* directory is returned as it is; otherwise the commands run until one
\* succeeds, and the directory then holds an environment for the version.
I_CreateVenv(t) ==
    /\ ppc[t] = "create_venv"
    /\ LET cmds == VenvCommands(pcall[t].python_version)
       IN  IF venv_dir # None
           THEN /\ pcall' = [pcall EXCEPT ![t].venv_path = Some(VenvDir)]
                /\ ppc' = [ppc EXCEPT ![t] = "get_python"]
                /\ UNCHANGED <<env, lock, venv_dir, succeeded>>
           ELSE \E n \in 0..Len(cmds) :   \* the first n commands fail
                  LET tried == {cmds[k] : k \in 1..(IF n = Len(cmds) THEN n ELSE n + 1)}
                  IN  IF n = Len(cmds)
                      THEN /\ PReturn(t, [pcall[t] EXCEPT
                                             !.ran = @ \cup tried,
                                             !.ret = VenvErr(pcall[t].python_version)],
                                      env)
                           /\ UNCHANGED venv_dir
                      ELSE /\ pcall' = [pcall EXCEPT ![t].ran = @ \cup tried,
                                                     ![t].venv_path = Some(VenvDir)]
                           /\ venv_dir' =
                                Some([python |-> IF pcall[t].python_version # None
                                                 THEN pcall[t].python_version[1]
                                                 ELSE "default",
                                      has_python |-> TRUE,
                                      made_by |-> t,
                                      command |-> cmds[n + 1]])
                           /\ ppc' = [ppc EXCEPT ![t] = "get_python"]
                           /\ UNCHANGED <<env, lock, succeeded>>
    /\ UNCHANGED lpc
    /\ PFrame /\ POther

\* A faulty variant: the flag is raised before the interpreter is looked up.
I_GetPythonFlagFirst(t) ==
    /\ ppc[t] = "get_python"
    /\ IF venv_dir # None /\ venv_dir[1].has_python
       THEN PReturn(t, [pcall[t] EXCEPT !.ret = <<"Ok">>],
                    [env EXCEPT !.venv_path = pcall[t].venv_path,
                                !.python_path = Some(VenvPython),
                                !.initialized = TRUE])
       ELSE PReturn(t, [pcall[t] EXCEPT !.ret =
                           <<"Err", "Python interpreter not found in virtual environment">>],
                    [env EXCEPT !.venv_path = pcall[t].venv_path, !.initialized = TRUE])
    /\ UNCHANGED <<venv_dir, lpc>>
    /\ PFrame /\ POther

\* env.venv_path = Some(venv_path.clone());
\* let python_path = get_python_from_venv(&venv_path)?;
\* env.python_path = Some(python_path); env.initialized = true; Ok(())
I_GetPython(t) ==
    /\ ppc[t] = "get_python"
    /\ IF venv_dir # None /\ venv_dir[1].has_python
       THEN PReturn(t, [pcall[t] EXCEPT !.ret = <<"Ok">>],
                    [env EXCEPT !.venv_path = pcall[t].venv_path,
                                !.python_path = Some(VenvPython),
                                !.initialized = TRUE])
       ELSE PReturn(t, [pcall[t] EXCEPT !.ret =
                           <<"Err", "Python interpreter not found in virtual environment">>],
                    [env EXCEPT !.venv_path = pcall[t].venv_path])
    /\ UNCHANGED <<venv_dir, lpc>>
    /\ PFrame /\ POther

\* A caller starts get_python_path().
G_Call(t) ==
    /\ ppc[t] = "idle"
    /\ pcall' = [pcall EXCEPT ![t] = [NoCall EXCEPT !.op = "get_python_path"]]
    /\ ppc' = [ppc EXCEPT ![t] = "g_lock"]
    /\ UNCHANGED <<env, lock, venv_dir, succeeded, lpc>>
    /\ PFrame /\ POther

\* let env = PYTHON_ENV.lock().unwrap();
G_Lock(t) ==
    /\ ppc[t] = "g_lock"
    /\ lock = "free"
    /\ lock' = t
    /\ pcall' = [pcall EXCEPT ![t].env_before = env, ![t].after_success = succeeded]
    /\ ppc' = [ppc EXCEPT ![t] = "g_check"]
    /\ UNCHANGED <<env, venv_dir, succeeded, lpc>>
    /\ PFrame /\ POther

\* if !env.initialized { Err("Python environment not initialized") }
\* else env.python_path.clone().ok_or_else(|| "Python interpreter not found")
G_Check(t) ==
    /\ ppc[t] = "g_check"
    /\ PReturn(t, [pcall[t] EXCEPT
                      !.ret = IF ~env.initialized
                              THEN <<"Err", "Python environment not initialized">>
                              ELSE IF env.python_path # None
                                   THEN <<"Ok", env.python_path[1]>>
                                   ELSE <<"Err", "Python interpreter not found">>],
               env)
    /\ UNCHANGED <<venv_dir, lpc>>
    /\ PFrame /\ POther

\* The caller goes on with the result.
P_Done(t) ==
    /\ ppc[t] = "returned"
    /\ ppc' = [ppc EXCEPT ![t] = "idle"]
    /\ pcall' = [pcall EXCEPT ![t] = NoCall]
    /\ UNCHANGED <<env, lock, venv_dir, succeeded, lpc>>
    /\ PFrame /\ POther

Callers == {"t1", "t2"}

InitPythonEnv ==
    /\ TransformerIdle /\ UnitIdle /\ BatchIdle /\ MainIdle /\ UvEnvIdle
    /\ env = NewEnvironment /\ lock = "free"
    /\ ppc = [t \in Callers |-> "idle"]
    /\ pcall = [t \in Callers |-> NoCall]
    /\ venv_dir \in VenvDirStates
    /\ explicit_exists \in BOOLEAN
    /\ path_python \in {"none", "python2", "python3"}
    /\ uv_ok \in BOOLEAN
    /\ succeeded = FALSE
    /\ keep_temp = FALSE /\ lpc = "idle" /\ removed = None

NextPythonEnv ==
    \E t \in Callers :
        \/ I_Call(t) \/ I_Lock(t) \/ I_Check(t) \/ I_Explicit(t) \/ I_FindInPath(t)
        \/ I_SetupUv(t) \/ I_CreateVenv(t) \/ I_GetPython(t)
        \/ G_Call(t) \/ G_Lock(t) \/ G_Check(t)
        \/ P_Done(t)

SpecPythonEnv == InitPythonEnv /\ [][NextPythonEnv]_vars


(***************************************************************************)
(* src/main.rs: the branch of main for the cargo compiler (use_uv false):  *)
(* initialize_python_env, set_python_env_vars, get_python_path, the        *)
(* compilation, and cleanup_venv unless --keep-temp. Each `?` ends the     *)
(* process with the error.                                                 *)
(***************************************************************************)
InitLegacyMain ==
    /\ TransformerIdle /\ UnitIdle /\ BatchIdle /\ MainIdle /\ UvEnvIdle
    /\ env = NewEnvironment /\ lock = "free"
    /\ ppc = [t \in {"main"} |-> "idle"]
    /\ pcall = [t \in {"main"} |-> NoCall]
    /\ venv_dir \in VenvDirStates
    /\ explicit_exists \in BOOLEAN
    /\ path_python \in {"none", "python2", "python3"}
    /\ uv_ok \in BOOLEAN
    /\ succeeded = FALSE
    /\ keep_temp \in BOOLEAN
    /\ lpc = "start" /\ removed = None

LFrame == UNCHANGED <<explicit_exists, path_python, uv_ok, keep_temp, succeeded, lock, env>>

\* python_env::initialize_python_env(cli.python_path, cli.python_version)
LM_Initialize ==
    /\ lpc = "start"
    /\ \E pp \in {None, Some(ExplicitPython)}, pv \in {None} \cup {Some(v) : v \in Versions} :
          pcall' = [pcall EXCEPT !["main"] =
                      [NoCall EXCEPT !.op = "initialize", !.python_path = pp,
                                     !.python_version = pv]]
    /\ ppc' = [ppc EXCEPT !["main"] = "lock"]
    /\ lpc' = "initialize"
    /\ UNCHANGED <<venv_dir, removed>>
    /\ LFrame /\ POther

\* .with_context(|| "Failed to initialize Python environment")?
LM_Initialized ==
    /\ lpc = "initialize" /\ ppc["main"] = "returned"
    /\ lpc' = IF pcall["main"].ret[1] = "Ok" THEN "set_python_env_vars" ELSE "failed"
    /\ ppc' = [ppc EXCEPT !["main"] = "idle"]
    /\ UNCHANGED <<pcall, venv_dir, removed>>
    /\ LFrame /\ POther

\* python_env::set_python_env_vars()?: the interpreter runs a test script.
LM_SetPythonEnvVars ==
    /\ lpc = "set_python_env_vars"
    /\ \E works \in BOOLEAN : lpc' = IF works THEN "get_python_path" ELSE "failed"
    /\ UNCHANGED <<ppc, pcall, venv_dir, removed>>
    /\ LFrame /\ POther

\* python_env::get_python_path()
LM_GetPythonPath ==
    /\ lpc = "get_python_path" /\ ppc["main"] = "idle"
    /\ pcall' = [pcall EXCEPT !["main"] = [NoCall EXCEPT !.op = "get_python_path"]]
    /\ ppc' = [ppc EXCEPT !["main"] = "g_lock"]
    /\ lpc' = "display_path"
    /\ UNCHANGED <<venv_dir, removed>>
    /\ LFrame /\ POther

\* .with_context(|| "Failed to get Python path")?
LM_GotPythonPath ==
    /\ lpc = "display_path" /\ ppc["main"] = "returned"
    /\ lpc' = IF pcall["main"].ret[1] = "Ok" THEN "compile" ELSE "failed"
    /\ ppc' = [ppc EXCEPT !["main"] = "idle"]
    /\ UNCHANGED <<pcall, venv_dir, removed>>
    /\ LFrame /\ POther

\* compile_file(..)? / batch_compile(..)?
LM_Compile ==
    /\ lpc = "compile"
    /\ \E compiled \in BOOLEAN : lpc' = IF compiled THEN "cleanup" ELSE "failed"
    /\ UNCHANGED <<ppc, pcall, venv_dir, removed>>
    /\ LFrame /\ POther

\* if cli.keep_temp { get_venv_path } else { cleanup_venv() }: cleanup_venv
\* removes the directory get_venv_dir() names if it exists; a failure to
\* remove it is logged.
LM_Cleanup ==
    /\ lpc = "cleanup"
    /\ IF keep_temp \/ venv_dir = None
       THEN UNCHANGED <<venv_dir, removed>>
       ELSE \E remove_ok \in BOOLEAN :
              IF remove_ok
              THEN /\ removed' = venv_dir
                   /\ venv_dir' = None
              ELSE UNCHANGED <<venv_dir, removed>>
    /\ lpc' = "done"
    /\ UNCHANGED <<ppc, pcall>>
    /\ LFrame /\ POther

NextLegacyMain ==
    \/ LM_Initialize
    \/ \E t \in {"main"} :
          \/ I_Lock(t) \/ I_Check(t) \/ I_Explicit(t) \/ I_FindInPath(t)
          \/ I_SetupUv(t) \/ I_CreateVenv(t) \/ I_GetPython(t)
          \/ G_Lock(t) \/ G_Check(t)
    \/ LM_Initialized
    \/ LM_SetPythonEnvVars
    \/ LM_GetPythonPath
    \/ LM_GotPythonPath
    \/ LM_Compile
    \/ LM_Cleanup

SpecLegacyMain == InitLegacyMain /\ [][NextLegacyMain]_vars


(***************************************************************************)
(* src/uv_env.rs: UvEnv::create. A kept environment lives under            *)
(* ~/.py2pyd/venvs/<uuid>, any other in a TempDir. Uuid::new_v4() is a     *)
(* random draw; every draw is a choice from Uuids.                         *)
(***************************************************************************)
Uuids == {"uuid-a", "uuid-b"}

TempNames == {".tmpX1", ".tmpX2"}

HomeVenv(uuid) == <<"~", ".py2pyd", "venvs", uuid>>

TempPath(name) == <<"/tmp", name>>

UvEnvConfigs ==
    [python_path : {None, Some(ExplicitPython)},
     python_version : {None} \cup {Some(v) : v \in Versions},
     keep_venv : BOOLEAN]

SFrame == UNCHANGED <<uv_input, levels, runs, spc>>

EOther == UNCHANGED <<tvars, uvars, bvars, mvars, pvars>>

InitUvEnv ==
    /\ TransformerIdle /\ UnitIdle /\ BatchIdle /\ MainIdle /\ PythonEnvIdle
    /\ uv_config \in UvEnvConfigs
    /\ home_venvs \in {{}, {"uuid-0"}}
    /\ home_before = home_venvs
    /\ made_dir = None /\ temp_dir = None /\ venv_path = None /\ venv_cmd = <<>>
    /\ uv_env = None /\ eresult = "none" /\ epc = "find_uv"
    /\ uv_input = <<>> /\ levels = <<>> /\ runs = <<>> /\ spc = "idle"

\* An early return with an error: the TempDir, if there is one, is dropped.
E_Err ==
    /\ eresult' = "Err"
    /\ epc' = "returned"
    /\ temp_dir' = None
    /\ UNCHANGED <<uv_config, home_before, uv_env>>

\* let uv_path = find_uv_executable()?;
E_FindUv ==
    /\ epc = "find_uv"
    /\ \E found \in BOOLEAN :
          IF found
          THEN /\ epc' = "temp_dir"
               /\ UNCHANGED <<uv_config, home_before, uv_env, eresult, temp_dir>>
          ELSE E_Err
    /\ UNCHANGED <<home_venvs, made_dir, venv_path, venv_cmd>>
    /\ SFrame /\ EOther

\* let temp_dir = if config.keep_venv { create_dir_all(home/.py2pyd/venvs/<uuid>); None }
\*                else { Some(TempDir::new()?) };
E_TempDir ==
    /\ epc = "temp_dir"
    /\ IF uv_config.keep_venv
       THEN \E uuid \in Uuids, created \in BOOLEAN :
              IF created
              THEN /\ home_venvs' = home_venvs \cup {uuid}
                   /\ made_dir' = Some(HomeVenv(uuid))
                   /\ epc' = "venv_path"
                   /\ UNCHANGED <<uv_config, home_before, uv_env, eresult, temp_dir>>
              ELSE /\ E_Err
                   /\ UNCHANGED <<home_venvs, made_dir>>
       ELSE \E name \in TempNames, created \in BOOLEAN :
              IF created
              THEN /\ temp_dir' = Some(TempPath(name))
                   /\ epc' = "venv_path"
                   /\ UNCHANGED <<uv_config, home_before, uv_env, eresult, home_venvs,
                                  made_dir>>
              ELSE /\ E_Err
                   /\ UNCHANGED <<home_venvs, made_dir>>
    /\ UNCHANGED <<venv_path, venv_cmd>>
    /\ SFrame /\ EOther

\* let venv_path = if let Some(ref temp_dir) = temp_dir { temp_dir.path() }
\*                 else { home/.py2pyd/venvs/<Uuid::new_v4()> };
E_VenvPath ==
    /\ epc = "venv_path"
    /\ \E uuid \in Uuids :
          venv_path' = IF temp_dir # None THEN temp_dir ELSE Some(HomeVenv(uuid))
    /\ epc' = "uv_venv"
    /\ UNCHANGED <<uv_config, home_venvs, home_before, made_dir, temp_dir, venv_cmd,
                   uv_env, eresult>>
    /\ SFrame /\ EOther

\* uv venv [--python <version or path>] <venv_path>
UvVenvArgs(config, path) ==
    <<"venv">>
    \o (IF config.python_version # None
        THEN <<"--python", config.python_version[1]>>
        ELSE IF config.python_path # None
             THEN <<"--python", config.python_path[1]>>
             ELSE <<>>)
    \o <<path>>

\* cmd.status(): on success uv has made the environment at the path.
E_UvVenv ==
    /\ epc = "uv_venv"
    /\ venv_cmd' = UvVenvArgs(uv_config, venv_path[1])
    /\ \E success \in BOOLEAN :
          IF success
          THEN /\ home_venvs' = IF temp_dir = None
                                THEN home_venvs \cup {venv_path[1][4]}
                                ELSE home_venvs
               /\ epc' = "python"
               /\ UNCHANGED <<uv_config, home_before, uv_env, eresult, temp_dir>>
          ELSE /\ E_Err
               /\ UNCHANGED home_venvs
    /\ UNCHANGED <<made_dir, venv_path>>
    /\ SFrame /\ EOther

\* <venv>/bin/python must exist; the packages are installed; Ok(Self { .. })
E_Finish ==
    /\ epc = "python"
    /\ \E outcome \in {"ok", "no_python", "install_failed"} :
          IF outcome = "ok"
          THEN /\ uv_env' = Some([venv_path |-> venv_path[1],
                                  python_path |-> venv_path[1] \o <<"bin", "python">>,
                                  temp_dir |-> temp_dir])
               /\ eresult' = "Ok"
               /\ epc' = "returned"
               /\ UNCHANGED <<uv_config, home_before, temp_dir>>
          ELSE E_Err
    /\ UNCHANGED <<home_venvs, made_dir, venv_path, venv_cmd>>
    /\ SFrame /\ EOther

NextUvEnv == E_FindUv \/ E_TempDir \/ E_VenvPath \/ E_UvVenv \/ E_Finish

SpecUvEnv == InitUvEnv /\ [][NextUvEnv]_vars


(***************************************************************************)
(* src/uv_compiler.rs: generate_setup_py and the part of compile_file that *)
(* writes the scratch files and runs the build, called twice on the same   *)
(* input with two optimize levels. The scratch directory and the           *)
(* environment get fresh names in every call: the files are named          *)
(* relative to the scratch directory and the interpreter relative to the   *)
(* environment.                                                            *)
(***************************************************************************)
\* A faulty variant: the level becomes a compiler flag of the extension.
generate_setup_py_with_level(stem, source, config) ==
    << <<"from setuptools import setup, Extension">>,
       <<"from setuptools.command.build_ext import build_ext">>,
       <<"import sys">>,
       <<>>,
       <<"class ABI3BuildExt(build_ext):">>,
       <<"    def build_extension(self, ext):">>,
       <<"        ext.py_limited_api = True">>,
       <<"        super().build_extension(ext)">>,
       <<>>,
       <<"setup(">>,
       <<"    name='", stem, "',">>,
       <<"    version='0.1',">>,
       <<"    ext_modules=[Extension(">>,
       <<"        '", stem, "',">>,
       <<"        sources=['", stem, ".py'],">>,
       <<"        extra_compile_args=['-O", config.optimize_level, "'],">>,
       <<"        py_limited_api=True,">>,
       <<"        define_macros=[('Py_LIMITED_API', '0x03070000')],">>,
       <<"    )],">>,
       <<"    cmdclass={'build_ext': ABI3BuildExt},">>,
       <<")">> >>

generate_setup_py(stem, source, config) ==
    << <<"from setuptools import setup, Extension">>,
       <<"from setuptools.command.build_ext import build_ext">>,
       <<"import sys">>,
       <<>>,
       <<"class ABI3BuildExt(build_ext):">>,
       <<"    def build_extension(self, ext):">>,
       <<"        ext.py_limited_api = True">>,
       <<"        super().build_extension(ext)">>,
       <<>>,
       <<"setup(">>,
       <<"    name='", stem, "',">>,
       <<"    version='0.1',">>,
       <<"    ext_modules=[Extension(">>,
       <<"        '", stem, "',">>,
       <<"        sources=['", stem, ".py'],">>,
       <<"        py_limited_api=True,">>,
       <<"        define_macros=[('Py_LIMITED_API', '0x03070000')],">>,
       <<"    )],">>,
       <<"    cmdclass={'build_ext': ABI3BuildExt},">>,
       <<")">> >>

\* CompileConfig with the fields main fills in.
CompileConfig(level, keep_flag) ==
    [python_path |-> None, python_version |-> None, optimize_level |-> level,
     keep_temp_files |-> keep_flag, target_dcc |-> None, packages |-> <<>>]

SourceTexts ==
    { << <<"def add(a, b):">>, <<"    return a + b">> >>,
      << <<"import os">>, <<"X = 1">> >> }

NoRun ==
    [optimize_level |-> 0, written |-> {}, build_command |-> <<>>, result |-> "none"]

InitSetupPy ==
    /\ TransformerIdle /\ UnitIdle /\ BatchIdle /\ MainIdle /\ PythonEnvIdle
    /\ uv_config = <<>> /\ home_venvs = {} /\ home_before = {}
    /\ made_dir = None /\ temp_dir = None /\ venv_path = None /\ venv_cmd = <<>>
    /\ uv_env = None /\ eresult = "none" /\ epc = "idle"
    /\ uv_input \in [file_stem : ModuleNames, source_code : SourceTexts,
                     keep_temp_files : BOOLEAN]
    /\ levels \in (0..U8Max) \X {0, 2, 3, U8Max}
    /\ runs = <<>>
    /\ spc = "call"

SOther ==
    /\ UNCHANGED <<uv_config, home_venvs, home_before, made_dir, temp_dir, venv_path,
                   venv_cmd, uv_env, eresult, epc, uv_input, levels>>
    /\ UNCHANGED <<tvars, uvars, bvars, mvars, pvars>>

\* The run being made is the last of runs.
Current == runs[Len(runs)]

SetCurrent(run) == runs' = [runs EXCEPT ![Len(runs)] = run]

\* compile_file up to the second fs::write: the scratch directory, the
\* module name, the source text, setup.py and <module>.py.
S_WriteFiles ==
    /\ spc = "call"
    /\ Len(runs) < 2
    /\ LET level == levels[Len(runs) + 1]
           config == CompileConfig(level, uv_input.keep_temp_files)
           setup_py == [name |-> <<"setup.py">>,
                        content |-> generate_setup_py(uv_input.file_stem,
                                                      uv_input.source_code, config)]
           source == [name |-> <<uv_input.file_stem, ".py">>,
                      content |-> uv_input.source_code]
       IN  \E outcome \in {"ok", "setup_py_error", "source_error", "temp_dir_error"} :
             /\ runs' = Append(runs,
                   [NoRun EXCEPT
                      !.optimize_level = level,
                      !.written = CASE outcome = "ok"           -> {setup_py, source}
                                    [] outcome = "source_error" -> {setup_py}
                                    [] OTHER                    -> {},
                      !.result = IF outcome = "ok" THEN "none" ELSE "Err"])
             /\ spc' = IF outcome = "ok" THEN "build" ELSE "returned"
    /\ SOther

\* UvEnv::create(..)?, then `<uv_env.python_path> setup.py build_ext --inplace`
\* with the scratch directory as current directory.
S_Build ==
    /\ spc = "build"
    /\ \E outcome \in {"env_error", "spawn_error", "failed", "ok"} :
          /\ SetCurrent([Current EXCEPT
                !.build_command =
                    IF outcome = "env_error" THEN <<>>
                    ELSE <<"bin/python", "setup.py", "build_ext", "--inplace">>,
                !.result = IF outcome = "ok" THEN "none" ELSE "Err"])
          /\ spc' = IF outcome = "ok" THEN "copy" ELSE "returned"
    /\ SOther

\* the artifact is looked up and copied to the output path
S_Copy ==
    /\ spc = "copy"
    /\ \E copied \in BOOLEAN :
          SetCurrent([Current EXCEPT !.result = IF copied THEN "Ok" ELSE "Err"])
    /\ spc' = "returned"
    /\ SOther

\* the caller makes the second call
S_CallAgain ==
    /\ spc = "returned"
    /\ Len(runs) < 2
    /\ spc' = "call"
    /\ UNCHANGED runs
    /\ SOther

NextSetupPy == S_WriteFiles \/ S_Build \/ S_Copy \/ S_CallAgain

SpecSetupPy == InitSetupPy /\ [][NextSetupPy]_vars


(***************************************************************************)
(* Properties of the extractors and of the emitter.                        *)
(***************************************************************************)
\* The top-level statements of a kind, in source order, read off the suite.
TopLevel(kind) == SelectSeq(ast, LAMBDA st : st.kind = kind)

TopNames(kind) == [j \in 1..Len(TopLevel(kind)) |-> TopLevel(kind)[j].name]

Range(f) == {f[x] : x \in DOMAIN f}

NestedStatements == UNION {Range(ast[i].body) : i \in 1..Len(ast)}

ExactlyOfKind(got, kind) ==
    /\ Range(got) = {ast[i] : i \in {k \in 1..Len(ast) : ast[k].kind = kind}}
    /\ \A j, k \in 1..Len(got) : j < k => got[j].location < got[k].location
    /\ Range(got) \cap NestedStatements = {}

IsFnReg(l) ==
    Len(l) = 3 /\ l[1] = "    m.add_function(wrap_pyfunction!(" /\ l[3] = ", m)?)?;"

IsClassReg(l) == Len(l) = 3 /\ l[1] = "    m.add_class::<" /\ l[3] = ">()?;"

IsFnDef(l) == Len(l) = 3 /\ l[1] = "fn " /\ l[3] = "(py: Python) -> PyResult<PyObject> {"

IsStructDef(l) == Len(l) = 3 /\ l[1] = "struct " /\ l[3] = " {"

\* The positions of the lines of a given form; for a stub, the line before
\* it carries the attribute.
FnRegAt == {i \in 1..Len(rust_code) : IsFnReg(rust_code[i])}

ClassRegAt == {i \in 1..Len(rust_code) : IsClassReg(rust_code[i])}

FnStubAt ==
    {i \in 2..Len(rust_code) :
        IsFnDef(rust_code[i]) /\ rust_code[i - 1] = <<"#[pyfunction]">>}

ClassStubAt ==
    {i \in 2..Len(rust_code) :
        IsStructDef(rust_code[i]) /\ rust_code[i - 1] = <<"#[pyclass]">>}

Occurrences(seq, x) == Cardinality({j \in 1..Len(seq) : seq[j] = x})

NamedAt(positions, name) == Cardinality({i \in positions : rust_code[i][2] = name})

Min(S) == CHOOSE x \in S : \A y \in S : x <= y

Before(A, B) == \A i \in A, j \in B : i < j

\* The names carried by the lines at a set of positions, by position.
RECURSIVE NamesAt(_)
NamesAt(positions) ==
    IF positions = {} THEN <<>>
    ELSE <<rust_code[Min(positions)][2]>> \o NamesAt(positions \ {Min(positions)})

\* C3 (as claimed): every name among the extracted functions and classes
\* appears exactly once in the registration section and has exactly one
\* stub definition, also when two declarations carry the same name.
C3_EachNameRegisteredOnce ==
    tpc = "transformed" =>
        \A n \in Range(TopNames("FunctionDef")) \cup Range(TopNames("ClassDef")) :
            /\ NamedAt(FnRegAt \cup ClassRegAt, n) = 1
            /\ NamedAt(FnStubAt \cup ClassStubAt, n) = 1
            /\ NamesAt(FnRegAt \cup ClassRegAt)
                  = TopNames("FunctionDef") \o TopNames("ClassDef")

OkAt == {i \in 1..Len(rust_code) : rust_code[i] = <<"    Ok(())">>}

\* C4: the binding source is the prologue, the #[pymodule] block with the
\* function registrations (source order) before the class registrations
\* (source order) before Ok(()), then the function stubs (source order),
\* then the class stubs (source order), however the source interleaves them.
C4_FixedLayout ==
    tpc = "transformed" =>
        /\ SubSeq(rust_code, 1, 3) =
              << <<"use pyo3::prelude::*;">>, <<"use pyo3::wrap_pyfunction;">>, <<>> >>
        /\ rust_code[4] = <<"#[pymodule]">>
        /\ rust_code[5] = <<"fn ", module_name, "(_py: Python, m: &PyModule) -> PyResult<()> {">>
        /\ FnRegAt \cup ClassRegAt = 6..(5 + Cardinality(FnRegAt) + Cardinality(ClassRegAt))
        /\ OkAt = {6 + Cardinality(FnRegAt) + Cardinality(ClassRegAt)}
        /\ Before(FnRegAt, ClassRegAt)
        /\ Before(ClassRegAt, OkAt)
        /\ Before(OkAt, FnStubAt \cup ClassStubAt)
        /\ Before(FnStubAt, ClassStubAt)
        /\ NamesAt(FnRegAt) = TopNames("FunctionDef")
        /\ NamesAt(ClassRegAt) = TopNames("ClassDef")
        /\ NamesAt(FnStubAt) = TopNames("FunctionDef")
        /\ NamesAt(ClassStubAt) = TopNames("ClassDef")

C4_Witness ==
    /\ tpc = "transformed"
    /\ Len(ast) = 3
    /\ ast[1].kind = "ClassDef" /\ ast[2].kind = "FunctionDef" /\ ast[3].kind = "ClassDef"
    /\ ast[1].name # ast[3].name
    /\ IsFnReg(rust_code[6]) /\ IsClassReg(rust_code[7]) /\ IsClassReg(rust_code[8])

\* The lines that follow the [profile.release] header.
ProfileBlock ==
    LET at == CHOOSE i \in 1..Len(cargo_toml) : cargo_toml[i] = <<"[profile.release]">>
    IN  Range(SubSeq(cargo_toml, at + 1, Len(cargo_toml)))

OptLevelLine(level) ==
    CASE level = 0 -> <<"opt-level = 0">>
      [] level = 1 -> <<"opt-level = 1">>
      [] level = 2 -> <<"opt-level = 2">>
      [] level = 3 -> <<"opt-level = 3">>

\* C5: generate_cargo_toml is total over u8; levels 0..2 give opt-level = L
\* with neither lto nor codegen-units; every level >= 3 gives opt-level = 3,
\* lto = true and codegen-units = 1, and the manifest of level 3.
C5_ProfileByLevel ==
    tpc = "cargo_done" =>
        /\ \E i \in 1..Len(cargo_toml) : cargo_toml[i] = <<"[profile.release]">>
        /\ optimize_level <= 2 =>
              /\ OptLevelLine(optimize_level) \in ProfileBlock
              /\ <<"lto = true">> \notin ProfileBlock
              /\ <<"codegen-units = 1">> \notin ProfileBlock
        /\ optimize_level >= 3 =>
              /\ OptLevelLine(3) \in ProfileBlock
              /\ <<"lto = true">> \in ProfileBlock
              /\ <<"codegen-units = 1">> \in ProfileBlock
              /\ cargo_toml = generate_cargo_toml(module_name, 3)

C5_Witness ==
    /\ tpc = "cargo_done"
    /\ optimize_level = U8Max
    /\ <<"lto = true">> \in ProfileBlock

(***************************************************************************)
(* Properties of one compilation unit.                                     *)
(***************************************************************************)
\* C6: when the build command exits non-zero, compile_file returns an
\* error, the copy step is never entered, and the destination path and its
\* parent are as they were when compile_file was called.
C6_FailedBuildLeavesDestination ==
    build_status = "failed" =>
        /\ cpc = "returned"
        /\ result = "Err"
        /\ copy_runs = 0
        /\ dest = dest_before
        /\ dest_parent = dest_parent_before

C6_Witness ==
    /\ build_status = "failed"
    /\ cpath = "legacy"
    /\ dest_before = "old"
    /\ result = "Err"

\* C10 (as claimed): the scratch directory exists while the build command
\* runs, and once compile_file has returned it is gone unless the keep flag
\* is set, in which case it is still there.
C10_ScratchRemovedUnlessKept ==
    /\ build_status = "running" => scratch_exists
    /\ (cpc = "returned" /\ ~keep) => ~scratch_exists
    /\ (cpc = "returned" /\ keep /\ scratch_made) => scratch_exists

(***************************************************************************)
(* Properties of a batch.                                                  *)
(***************************************************************************)
AttemptedInputs == [j \in 1..Len(attempts) |-> attempts[j].input]

\* C7 (as claimed): whatever units fail, batch_compile runs compile_file for
\* every enumerated file, in order, and returns Ok.
C7_BatchNeverAborts ==
    (bpc = "done" /\ python_files # <<>>) =>
        /\ AttemptedInputs = python_files
        /\ bresult = "Ok"

\* C8 (as claimed): the two counters sum to the number of units processed,
\* success_count counts the units whose compile_file returned Ok, and when
\* the batch has finished they sum to the number of enumerated files.
C8_CountersAccountForEveryUnit ==
    /\ success_count + failure_count = Len(attempts)
    /\ success_count = Cardinality({j \in 1..Len(attempts) : attempts[j].outcome = "none"})
    /\ (bpc = "done" /\ python_files # <<>>) =>
            success_count + failure_count = Len(python_files)

IsUnder(path, dir) ==
    /\ path.abs = dir.abs
    /\ Len(path.comps) > Len(dir.comps)
    /\ SubSeq(path.comps, 1, Len(dir.comps)) = dir.comps

\* The last n components of a path, the last one with the extension ext.
Mirrored(path, n, ext) ==
    LET k == Len(path.comps)
    IN  [j \in 1..n |->
            IF j = n THEN Comp(path.comps[k].stem, ext) ELSE path.comps[k - n + j]]

\* C9 (as claimed): every output path handed to compile_file lies under the
\* output directory and is the output directory followed by the file's path
\* relative to the input (for a directory input: the path below that
\* directory), with the platform extension.
C9_OutputsMirrorInputUnderOutputDir ==
    \A j \in 1..Len(attempts) :
        LET a == attempts[j]
        IN  /\ IsUnder(a.output, output_dir)
            /\ \E n \in 1..Len(a.input.comps) :
                  /\ input_pattern.is_dir =>
                        n = Len(a.input.comps) - Len(input_pattern.path.comps)
                  /\ a.output.comps
                        = output_dir.comps \o Mirrored(a.input, n, IF windows THEN "pyd" ELSE "so")

(***************************************************************************)
(* Further properties of the extractors.                                   *)
(***************************************************************************)
\* C11 (as claimed): extract_functions returns every top-level function
\* definition, those declared with `async def` included: with two `def` and
\* one `async def` at the top level it returns three functions.
C11_AsyncFunctionsExtracted ==
    tpc \in {"extracted", "transformed"} =>
        /\ Len(functions) = Len(TopLevel("FunctionDef")) + Len(TopLevel("AsyncFunctionDef"))
        /\ \A i \in 1..Len(ast) :
              ast[i].kind \in {"FunctionDef", "AsyncFunctionDef"} => ast[i] \in Range(functions)

(***************************************************************************)
(* Further properties of one compilation unit.                             *)
(***************************************************************************)
\* The fragments of all the messages of an error.
Fragments(e) == UNION {Range(e[i]) : i \in 1..Len(e)}

\* C12 (as claimed): when the build command exits non-zero, the error that
\* compile_file returns carries what the process wrote to stderr / stdout,
\* verbatim.
C12_BuildErrorCarriesProcessOutput ==
    (build_status = "failed" /\ cpc = "returned" /\ proc_output # "") =>
        /\ result = "Err"
        /\ proc_output \in Fragments(error)

\* The error says that no artifact was found.
IsArtifactNotFound(e) ==
    /\ e # <<>>
    /\ e[Len(e)][1] \in {"No compiled library found in ",
                         "Failed to find compiled extension module"}

\* C13 (as claimed): after a successful build the artifact is looked for
\* directly in the output directory and, failing that, below it, so a file
\* with the library extension is found wherever under that directory the
\* build left it: the unit does not end with "not found", what is copied is
\* a file the build left, and a file directly in the directory is taken
\* before a nested one.
C13_ArtifactFoundAlsoWhenNested ==
    (cpc = "returned" /\ build_status = "ok" /\ built # {}) =>
        /\ ~IsArtifactNotFound(error)
        /\ copied_from # "none" => copied_from \in built
        /\ (copied_from = "nested") => built = {"nested"}

\* The places each path looks at for the artifact.
Searched == IF cpath = "legacy" THEN {"exact", "top"} ELSE {"top", "nested"}

\* The error comes from listing the directory, not from its content.
IsScanError(e) ==
    \E i \in 1..Len(e) : e[i][1] \in {"Failed to read directory: ", "walkdir::Error"}

StagesEntered == {stages[i].stage : i \in 1..Len(stages)}

\* The error reports the failure of the parser.
IsParseError(e) == \E i \in 1..Len(e) : e[i][1] = "Python parsing error: "

\* C15 (as claimed): for a malformed source file compile_file returns a
\* parse error at once: no stage after reading and parsing is entered, no
\* file is written to the scratch directory, no environment is provisioned
\* and the build command is not started.
C15_MalformedSourceFailsAtOnce ==
    malformed =>
        /\ StagesEntered \subseteq {"read", "parse"}
        /\ scratch_files = {}
        /\ build_runs = 0
        /\ cpc = "returned" =>
              /\ result = "Err"
              /\ IsParseError(error) \/ failed_at \in {"tempdir", "transform", "prepare"}

\* The stages of one unit as the claim names them.
Pipeline == <<"parse", "emit", "write", "build", "copy">>

\* The stages of the pipeline among those entered, in the order entered.
PipelineStages == SelectSeq(stages, LAMBDA st : st.stage \in Range(Pipeline))

\* C16 (as claimed): the stages of a unit are entered in the order parse,
\* extract/emit, write project files, build, locate and copy, each once and
\* only after every earlier one has completed successfully; a failed stage
\* makes compile_file return Err with no later stage entered, and Ok is
\* returned only after all five have succeeded.
C16_StagesInStrictSequence ==
    /\ Len(PipelineStages) <= Len(Pipeline)
    /\ \A i \in 1..Len(PipelineStages) : PipelineStages[i].stage = Pipeline[i]
    /\ \A i \in 1..(Len(stages) - 1) : stages[i].status = "ok"
    /\ (\E i \in 1..Len(stages) : stages[i].status = "failed") =>
            (cpc = "returned" /\ result = "Err")
    /\ result = "Ok" =>
            /\ Len(PipelineStages) = Len(Pipeline)
            /\ \A i \in 1..Len(stages) : stages[i].status = "ok"

\* C17: in one compile_file call the build command is spawned at most once,
\* and once it has exited non-zero no step spawns it again.
C17_BuildNeverRetried ==
    /\ [](build_runs <= 1)
    /\ [][build_status = "failed" => (build_runs' = build_runs /\ build_status' = "failed")]_vars

C17_Witness ==
    /\ cpc = "returned" /\ result = "Err"
    /\ build_status = "failed" /\ build_runs = 1
    /\ stages[Len(stages)] = Stage("build", "failed")

(***************************************************************************)
(* Properties of the toolchain probe and of main.                          *)
(***************************************************************************)
\* The compiler families the system offers, read off what is installed:
\* MSVC is cl; MinGW is gcc together with dlltool; GCC is gcc on a Unix
\* system; Xcode is xcode-select with its developer directory on macOS.
FamiliesAvailable ==
    (IF "cl" \in on_path THEN {"MSVC"} ELSE {})
    \cup (IF {"gcc", "dlltool"} \subseteq on_path THEN {"MinGW"} ELSE {})
    \cup (IF platform # "windows" /\ "gcc" \in on_path THEN {"GCC"} ELSE {})
    \cup (IF platform = "macos" /\ {"xcode-select", "developer-dir"} \subseteq on_path
          THEN {"Xcode"} ELSE {})

\* The first line of the installation instructions of a platform.
InstructionsHeading ==
    IF platform = "windows"
    THEN "To install the required build tools on Windows, you have two options:"
    ELSE "To install the required build tools on Linux/macOS:"

\* C18: main probes the toolchain before anything else; with no compiler
\* family available check_build_tools returns an error holding the
\* installation instructions, the process exits with a non-zero code, and
\* no environment is provisioned and no build command started; it returns
\* Ok only when a family is available.
C18_ProbeComesFirstAndGates ==
    /\ mpc = "start" =>
          (check_result = "none" /\ provision_runs = 0 /\ build_cmd_runs = 0)
    /\ mpc # "start" => check_result \in {"Ok", "Err"}
    /\ (mpc # "start" /\ FamiliesAvailable = {}) =>
          /\ check_result = "Err"
          /\ mpc = "exit" /\ exit_code = 1
          /\ InstructionsHeading \in Fragments(main_error)
          /\ provision_runs = 0 /\ build_cmd_runs = 0
    /\ check_result = "Ok" => FamiliesAvailable # {}

C18_Witness ==
    /\ mpc = "exit" /\ exit_code = 1
    /\ check_result = "Err"
    /\ platform = "windows" /\ on_path = {"gcc", "devenv"}
    /\ InstructionsHeading \in Fragments(main_error)

\* The tool names a text fragment contains; the fragments of the paths of
\* this model contain none.
ToolNamesIn(fragment) ==
    CASE fragment = "MSVC: "  -> {"MSVC"}
      [] fragment = "MinGW: " -> {"MinGW"}
      [] fragment = "GCC: "   -> {"GCC"}
      [] fragment = "Xcode Command Line Tools: " -> {"Xcode"}
      [] OTHER -> {}

\* C19 (as claimed): whatever tool paths were detected, get_tools_info
\* returns a non-empty text that contains one of the names MSVC, MinGW, GCC,
\* Xcode or is the text "No build tools found".
C19_InfoNamesAToolOrSaysNone ==
    mpc = "info" =>
        /\ tools_info # <<>>
        /\ \/ \E i \in 1..Len(tools_info) :
                 \E j \in 1..Len(tools_info[i]) : ToolNamesIn(tools_info[i][j]) # {}
           \/ tools_info = << <<"No build tools found">> >>

(***************************************************************************)
(* Properties of transform_file.                                           *)
(***************************************************************************)
\* C20: for an input file <stem>.py with a UTF-8 stem, transform_file sets
\* module_name to exactly that stem, and the same text is the name of the
\* #[pymodule] function in the binding source and the package name, the
\* library name and the maturin name in the manifest.
C20_ModuleNameIsFileStemEverywhere ==
    tpc = "file_transformed" =>
        \E st \in StemsTried \ {<<NotUtf8>>} :
            /\ input_file = st \o <<"py">>
            /\ module_name = st
            /\ rust_code[4] = <<"#[pymodule]">>
            /\ rust_code[5][1] = "fn " /\ rust_code[5][2] = st
            /\ cargo_toml[1] = <<"[package]">>
            /\ cargo_toml[2] = <<"name = \"", st, "\"">>
            /\ cargo_toml[6] = <<"[lib]">>
            /\ cargo_toml[7] = <<"name = \"", st, "\"">>
            /\ cargo_toml[10] = <<"[package.metadata.maturin]">>
            /\ cargo_toml[11] = <<"name = \"", st, "\"">>

C20_Witness ==
    /\ tpc = "file_transformed"
    /\ input_file = <<"my", "module", "py">>
    /\ module_name = <<"my", "module">>
    /\ rust_code[5][2] = <<"my", "module">>

(***************************************************************************)
(* Delimiters of the binding source.                                       *)
(***************************************************************************)
\* The number of `{` and of `}` characters in each fragment transform_ast
\* pushes. Every literal of the emitter is listed; a name is an identifier
\* of the Python source and holds neither.
Braces(fragment) ==
    CASE fragment = "use pyo3::prelude::*;"                         -> [open |-> 0, close |-> 0]
      [] fragment = "use pyo3::wrap_pyfunction;"                    -> [open |-> 0, close |-> 0]
      [] fragment = "#[pymodule]"                                   -> [open |-> 0, close |-> 0]
      [] fragment = "fn "                                           -> [open |-> 0, close |-> 0]
      [] fragment = "(_py: Python, m: &PyModule) -> PyResult<()> {" -> [open |-> 1, close |-> 0]
      [] fragment = "    m.add_function(wrap_pyfunction!("          -> [open |-> 0, close |-> 0]
      [] fragment = ", m)?)?;"                                      -> [open |-> 0, close |-> 0]
      [] fragment = "    m.add_class::<"                            -> [open |-> 0, close |-> 0]
      [] fragment = ">()?;"                                         -> [open |-> 0, close |-> 0]
      [] fragment = "    Ok(())"                                    -> [open |-> 0, close |-> 0]
      [] fragment = "}"                                             -> [open |-> 0, close |-> 1]
      [] fragment = "#[pyfunction]"                                 -> [open |-> 0, close |-> 0]
      [] fragment = "(py: Python) -> PyResult<PyObject> {"          -> [open |-> 1, close |-> 0]
      [] fragment = "    // Auto-generated function implementation" -> [open |-> 0, close |-> 0]
      [] fragment = "    Ok(py.None())"                             -> [open |-> 0, close |-> 0]
      [] fragment = "#[pyclass]"                                    -> [open |-> 0, close |-> 0]
      [] fragment = "struct "                                       -> [open |-> 0, close |-> 0]
      [] fragment = " {"                                            -> [open |-> 1, close |-> 0]
      [] fragment = "    // Auto-generated class implementation"    -> [open |-> 0, close |-> 0]
      [] fragment = "#[pymethods]"                                  -> [open |-> 0, close |-> 0]
      [] fragment = "impl "                                         -> [open |-> 0, close |-> 0]
      [] fragment = "    #[new]"                                    -> [open |-> 0, close |-> 0]
      [] fragment = "    fn new() -> Self {"                        -> [open |-> 1, close |-> 0]
      [] fragment = "        "                                      -> [open |-> 0, close |-> 0]
      [] fragment = "{ }"                                           -> [open |-> 1, close |-> 1]
      [] fragment = "    }"                                         -> [open |-> 0, close |-> 1]
      [] fragment \in Names \cup ModuleNames \cup {"inner", "Inner"} -> [open |-> 0, close |-> 0]

RECURSIVE SumOver(_, _, _)
SumOver(seq, i, side) ==
    IF i > Len(seq) THEN 0
    ELSE (IF side = "open" THEN Braces(seq[i]).open ELSE Braces(seq[i]).close)
         + SumOver(seq, i + 1, side)

BraceCount(text, side) == SumOver(Flatten(text), 1, side)

\* C21: whatever the numbers of functions and classes, the binding source
\* holds as many `{` as `}` characters; a module without functions and
\* classes gets no registration line and is balanced too.
C21_BracesBalanced ==
    tpc = "transformed" =>
        /\ BraceCount(rust_code, "open") = BraceCount(rust_code, "close")
        /\ BraceCount(rust_code, "open")
              = 1 + Len(TopLevel("FunctionDef")) + 4 * Len(TopLevel("ClassDef"))
        /\ (TopLevel("FunctionDef") = <<>> /\ TopLevel("ClassDef") = <<>>)
              => FnRegAt \cup ClassRegAt = {}

C21_Witness ==
    /\ tpc = "transformed"
    /\ Len(TopLevel("FunctionDef")) = 1
    /\ Len(TopLevel("ClassDef")) = 2
    /\ BraceCount(rust_code, "open") = 10
    /\ BraceCount(rust_code, "close") = 10

(***************************************************************************)
(* Extraction as a function of the suite.                                  *)
(***************************************************************************)
Extracted == <<functions, classes, imports, from_imports, module_vars>>

Locked == {"check", "explicit", "find_in_path", "setup_uv", "create_venv",
           "get_python", "g_check"}

\* The positions and commands of uv setup and virtual-environment creation.
Provisioning == {"setup_uv", "create_venv", "get_python"}

ProvisioningRan(call) == call.ran \ {<<"python", "--version">>}

Returned(t, op) == ppc[t] = "returned" /\ pcall[t].op = op

\* C23: the calls on the record exclude each other from lock to return;
\* once an initialize_python_env call has succeeded no call is at, or has
\* run, uv setup or virtual-environment creation; and get_python_path never
\* sees initialized = true with python_path unset.
C23_CallsAtomicUnderLock ==
    /\ \A t, u \in DOMAIN ppc : (ppc[t] \in Locked /\ ppc[u] \in Locked) => t = u
    /\ \A t \in DOMAIN ppc : ppc[t] \in Locked <=> lock = t
    /\ \A t \in DOMAIN ppc :
          /\ (succeeded /\ ppc[t] \in Provisioning) => FALSE
          /\ (pcall[t].op = "initialize" /\ pcall[t].after_success)
                => ProvisioningRan(pcall[t]) = {}
          /\ Returned(t, "get_python_path")
                => (pcall[t].env_before.initialized
                      => pcall[t].env_before.python_path # None)

C23_Witness ==
    /\ succeeded
    /\ Returned("t2", "initialize") /\ pcall["t2"].after_success
    /\ pcall["t2"].python_version # None
    /\ ppc["t1"] = "g_check"
    /\ env.venv_path # None

\* C24: initialized = true implies that python_path is set; get_python_path
\* returns Ok exactly when an initialize_python_env call has returned Ok
\* before it, and the "not initialized" error otherwise.
C24_OkIffInitialized ==
    /\ env.initialized => env.python_path # None
    /\ \A t \in DOMAIN ppc :
          Returned(t, "get_python_path") =>
              /\ pcall[t].ret[1] = "Ok" <=> pcall[t].after_success
              /\ pcall[t].ret[1] = "Ok" => pcall[t].ret = <<"Ok", env.python_path[1]>>
              /\ pcall[t].ret[1] # "Ok"
                    => pcall[t].ret = <<"Err", "Python environment not initialized">>

C24_Witness ==
    /\ Returned("t1", "get_python_path")
    /\ pcall["t1"].ret = <<"Ok", VenvPython>>
    /\ Returned("t2", "get_python_path")
    /\ pcall["t2"].ret = <<"Err", "Python environment not initialized">>

\* C25: after a successful initialize_python_env every further call to it,
\* whatever its arguments, returns Ok, runs no command and leaves the four
\* fields of the record as they were.
C25_LaterInitializeIsNoOp ==
    \A t \in DOMAIN ppc :
        (Returned(t, "initialize") /\ pcall[t].after_success) =>
            /\ pcall[t].ret = <<"Ok">>
            /\ pcall[t].ran = {}
            /\ pcall[t].env_after = pcall[t].env_before
            /\ env = pcall[t].env_before

C25_Witness ==
    /\ Returned("t2", "initialize") /\ pcall["t2"].after_success
    /\ explicit_exists /\ pcall["t2"].python_path = Some(ExplicitPython)
    /\ pcall["t2"].python_version = Some("3.11")
    /\ env.python_path = Some(PathPython)

\* C26 (as claimed): an initialize_python_env call that returns an error
\* leaves python_path, uv_path, venv_path and initialized as they were
\* before the call.
C26_FailedInitializeLeavesRecord ==
    \A t \in DOMAIN ppc :
        (Returned(t, "initialize") /\ pcall[t].ret[1] = "Err") =>
            /\ pcall[t].env_after = pcall[t].env_before
            /\ ~pcall[t].env_after.initialized

\* Whether main's call resolved the interpreter through uv provisioning.
ResolvedThroughUv == env.venv_path # None

\* C27 (as claimed): without --keep-temp the final cleanup removes a
\* virtual-environment directory only if initialize_python_env created one
\* in this run; with the interpreter taken from the explicit path or from
\* PATH nothing is removed.
C27_CleanupRemovesOnlyOwnVenv ==
    (lpc = "done" /\ ~keep_temp) =>
        /\ removed # None => removed[1].made_by = "main"
        /\ ~ResolvedThroughUv => removed = None

\* C28 (as claimed): a call with a python_version that reaches uv
\* provisioning and succeeds stores the interpreter of a virtual environment
\* that `uv venv --python <version>` created for that version, whatever the
\* virtual-environment directory held before the call.
C28_VenvMadeForRequestedVersion ==
    \A t \in DOMAIN ppc :
        (/\ Returned(t, "initialize") /\ pcall[t].ret = <<"Ok">>
         /\ pcall[t].python_version # None
         /\ <<"setup_uv">> \in pcall[t].ran) =>
            /\ pcall[t].env_after.python_path = Some(VenvPython)
            /\ venv_dir # None
            /\ venv_dir[1].python = pcall[t].python_version[1]

(***************************************************************************)
(* Properties of UvEnv::create and of the files of the uv compiler.        *)
(***************************************************************************)
\* C29 (as claimed): with keep_venv the directory made under
\* ~/.py2pyd/venvs is the one handed to `uv venv` and returned as
\* venv_path, and a successful call leaves exactly one new directory there.
C29_KeptVenvIsTheDirectoryMade ==
    (epc = "returned" /\ eresult = "Ok" /\ uv_config.keep_venv) =>
        /\ made_dir = Some(uv_env[1].venv_path)
        /\ venv_cmd[Len(venv_cmd)] = made_dir[1]
        /\ Cardinality(home_venvs \ home_before) = 1

\* What a run wrote under a name, and whether it wrote it.
WrittenAs(run, name) == {f \in run.written : f.name = name}

\* C30: two compile_file calls of the uv compiler on the same input that
\* differ only in optimize_level write the same setup.py and the same
\* source file and run the same build command; setup.py depends on the
\* module name alone.
C30_SetupPyIgnoresOptimizeLevel ==
    /\ \A k \in 1..Len(runs) :
          \A f \in WrittenAs(runs[k], <<"setup.py">>) :
              \A text \in SourceTexts, level \in {0, 3, U8Max}, flag \in BOOLEAN :
                  f.content = generate_setup_py(uv_input.file_stem, text,
                                                CompileConfig(level, flag))
    /\ (Len(runs) = 2 /\ runs[1].build_command # <<>> /\ runs[2].build_command # <<>>) =>
          /\ runs[1].written = runs[2].written
          /\ runs[1].build_command = runs[2].build_command

C30_Witness ==
    /\ Len(runs) = 2 /\ spc = "returned"
    /\ runs[1].optimize_level = 0 /\ runs[2].optimize_level = 3
    /\ runs[1].result = "Ok" /\ runs[2].result = "Ok"
    /\ Cardinality(runs[2].written) = 2

====
